---- MODULE Spec2Model ----
(***************************************************************************)
(* Verification model of the virtual-memory visualizer's simulation core:  *)
(*   - the TLB simulator            (backend/src/tlb_sim.c)                 *)
(*   - the demand-paging simulator  (backend/src/paging_sim.c)              *)
(*   - the address decomposer and page-table walk                           *)
(*                                  (backend/src/addr_translate.c,          *)
(*                                   backend/src/proc_reader.c)             *)
(* Each component has its own specification (SpecTLB, SpecPaging,          *)
(* SpecAddr) over a shared set of variables; a component's specification   *)
(* leaves the other components' variables unchanged.                        *)
(***************************************************************************)
EXTENDS Integers, Sequences, FiniteSets, TLC

VARIABLES
    tlb,        \* global_tlb: the TLB object, or NULL
    tlb_op,     \* the last TLB call: its name, arguments and return value
    tlb_hist,   \* history of the TLB object since tlb_init (see TlbHistZero)
    sim,        \* global_paging: the paging simulator, or NULL
    paging_op,  \* the last paging call: its name, argument and return value
    paging_hist,\* history of the paging simulator since paging_init (see PagingHistZero)
    walk,       \* the PageWalkResult of the last walk_page_table call
    walk_op     \* the last translation call: its inputs and return value

vars == <<tlb, tlb_op, tlb_hist, sim, paging_op, paging_hist, walk, walk_op>>

(***************************************************************************)
(* Bounds of the model.                                                     *)
(***************************************************************************)
MaxTlbSize == 2         \* largest TLB size that tlb_init is asked for and accepts
MaxTlbCalls == 4        \* calls made on one TLB object after tlb_init
MaxInitSize == 16        \* sizes -3..MaxInitSize are asked of tlb_init alone
MaxFrames == 2          \* largest frame count asked of paging_init (besides the clamped ones)
MaxPagingCalls == 5     \* access and flush calls made after one paging_init
MaxClockFrames == 3     \* largest frame count of the CLOCK-only frame table
MaxClockCalls == 6      \* access and flush calls made on the CLOCK-only frame table
MaxLruFrames == 3       \* largest frame count of the LRU-only frame table
MaxLruCalls == 6        \* access and flush calls made on the LRU-only frame table
MaxFifoFrames == 3      \* largest frame count of the FIFO-only frame table
MaxFifoCalls == 6       \* access and flush calls made on the FIFO-only frame table
MaxTwinFrames == 2      \* largest frame count of the frame table run beside a fresh one
MaxTwinCalls == 7       \* access and flush calls made on the frame table run beside a fresh one
MaxCmdFrames == 2       \* largest frame count given to the 'paging init' command
MaxCmdCalls == 4        \* 'paging access' and 'paging flush' commands after one 'paging init'

(***************************************************************************)
(* Program constants.                                                       *)
(***************************************************************************)
TLB_POLICY_LRU == 0
TLB_POLICY_FIFO == 1
TLB_POLICY_RANDOM == 2
TLB_POLICY_CLOCK == 3
TLB_MAX_SIZE == 1024
PAGING_POLICY_LRU == 0
PAGING_POLICY_FIFO == 1
PAGING_POLICY_RANDOM == 2
PAGING_POLICY_CLOCK == 3
MAX_PAGING_FRAMES == 64
PAGE_SHIFT == 12
PML4_SHIFT == 39
PDPT_SHIFT == 30
PD_SHIFT == 21
PT_SHIFT == 12
PAGE_OFFSET_MASK == 4095    \* 0xFFF
PT_INDEX_MASK == 511        \* 0x1FF
INT_MAX == 2147483647

Policies == {TLB_POLICY_LRU, TLB_POLICY_FIFO, TLB_POLICY_RANDOM, TLB_POLICY_CLOCK}

\* The null pointer.
NULL == [null |-> TRUE]

\* The value of an out parameter the callee did not write.
Unset == -1

(***************************************************************************)
(* TLB simulator (tlb_sim.c)                                                *)
(***************************************************************************)

\* A TLBEntry as calloc leaves it.
TLBEntryZero ==
    [vpn |-> 0, pfn |-> 0, valid |-> 0, dirty |-> 0, accessed |-> 0, last_access |-> 0]

\* tlb_init that refuses the size TLB_MAX_SIZE itself.
tlb_init_below_max(size, replacement_policy) ==
    IF size <= 0 \/ size >= TLB_MAX_SIZE
    THEN NULL
    ELSE [entries |-> [i \in 0..(size - 1) |-> TLBEntryZero],
          size |-> size,
          replacement_policy |-> replacement_policy,
          hits |-> 0,
          misses |-> 0,
          access_counter |-> 0]

tlb_init(size, replacement_policy) ==
    IF size <= 0 \/ size > TLB_MAX_SIZE
    THEN NULL
    ELSE [entries |-> [i \in 0..(size - 1) |-> TLBEntryZero],
          size |-> size,
          replacement_policy |-> replacement_policy,
          hits |-> 0,
          misses |-> 0,
          access_counter |-> 0]

\* tlb_flush that also restarts the access counter.
tlb_flush_restarting(t) ==
    IF t = NULL THEN t
    ELSE [t EXCEPT !.entries =
            [i \in 0..(t.size - 1) |->
                [t.entries[i] EXCEPT !.valid = 0, !.vpn = 0, !.pfn = 0, !.last_access = 0]],
                   !.access_counter = 0]

\* tlb_flush that clears vpn, pfn and last_access and leaves the valid flags.
tlb_flush_keepvalid(t) ==
    IF t = NULL THEN t
    ELSE [t EXCEPT !.entries =
            [i \in 0..(t.size - 1) |->
                [t.entries[i] EXCEPT !.vpn = 0, !.pfn = 0, !.last_access = 0]]]

tlb_flush(t) ==
    IF t = NULL THEN t
    ELSE [t EXCEPT !.entries =
            [i \in 0..(t.size - 1) |->
                [t.entries[i] EXCEPT !.valid = 0, !.vpn = 0, !.pfn = 0, !.last_access = 0]]]

\* tlb_reset_stats that also clears the recency stamps of the slots.
tlb_reset_stats_and_stamps(t) ==
    IF t = NULL THEN t
    ELSE [t EXCEPT !.hits = 0, !.misses = 0, !.access_counter = 0,
                   !.entries = [i \in DOMAIN t.entries |->
                                   [t.entries[i] EXCEPT !.last_access = 0]]]

tlb_reset_stats(t) ==
    IF t = NULL THEN t
    ELSE [t EXCEPT !.hits = 0, !.misses = 0, !.access_counter = 0]

\* The loop "for i: if (entries[i].valid && entries[i].vpn == vpn)": the first
\* matching index from i on, or -1.
RECURSIVE FindEntry(_, _, _)
FindEntry(t, vpn, i) ==
    IF i >= t.size THEN -1
    ELSE IF t.entries[i].valid = 1 /\ t.entries[i].vpn = vpn THEN i
    ELSE FindEntry(t, vpn, i + 1)

\* tlb_lookup with a hit that leaves last_access and access_counter alone.
tlb_lookup_norefresh(t, vpn) ==
    IF t = NULL THEN [tlb |-> t, ret |-> 0, pfn |-> Unset]
    ELSE LET i == FindEntry(t, vpn, 0) IN
         IF i >= 0
         THEN [tlb |-> [t EXCEPT !.entries[i].accessed = 1, !.hits = @ + 1],
               ret |-> 1,
               pfn |-> t.entries[i].pfn]
         ELSE [tlb |-> [t EXCEPT !.misses = @ + 1], ret |-> 0, pfn |-> Unset]

\* tlb_lookup that advances the access counter on a miss too.
tlb_lookup_miss_ticks(t, vpn) ==
    IF t = NULL THEN [tlb |-> t, ret |-> 0, pfn |-> Unset]
    ELSE LET i == FindEntry(t, vpn, 0) IN
         IF i >= 0
         THEN [tlb |-> [t EXCEPT
                          !.entries[i].accessed = 1,
                          !.entries[i].last_access = t.access_counter,
                          !.access_counter = @ + 1,
                          !.hits = @ + 1],
               ret |-> 1,
               pfn |-> t.entries[i].pfn]
         ELSE [tlb |-> [t EXCEPT !.misses = @ + 1, !.access_counter = @ + 1],
               ret |-> 0, pfn |-> Unset]

\* tlb_lookup that advances the counter before it stamps the entry.
tlb_lookup_preincrement(t, vpn) ==
    IF t = NULL THEN [tlb |-> t, ret |-> 0, pfn |-> Unset]
    ELSE LET i == FindEntry(t, vpn, 0) IN
         IF i >= 0
         THEN [tlb |-> [t EXCEPT
                          !.entries[i].accessed = 1,
                          !.entries[i].last_access = t.access_counter + 1,
                          !.access_counter = @ + 1,
                          !.hits = @ + 1],
               ret |-> 1,
               pfn |-> t.entries[i].pfn]
         ELSE [tlb |-> [t EXCEPT !.misses = @ + 1], ret |-> 0, pfn |-> Unset]

\* tlb_lookup: *pfn is written on a hit only.
tlb_lookup(t, vpn) ==
    IF t = NULL THEN [tlb |-> t, ret |-> 0, pfn |-> Unset]
    ELSE LET i == FindEntry(t, vpn, 0) IN
         IF i >= 0
         THEN [tlb |-> [t EXCEPT
                          !.entries[i].accessed = 1,
                          !.entries[i].last_access = t.access_counter,
                          !.access_counter = @ + 1,
                          !.hits = @ + 1],
               ret |-> 1,
               pfn |-> t.entries[i].pfn]
         ELSE [tlb |-> [t EXCEPT !.misses = @ + 1], ret |-> 0, pfn |-> Unset]

\* The loop "for i: if (!entries[i].valid) return i": first invalid index or -1.
RECURSIVE FirstInvalid(_, _)
FirstInvalid(t, i) ==
    IF i >= t.size THEN -1
    ELSE IF t.entries[i].valid = 0 THEN i
    ELSE FirstInvalid(t, i + 1)

\* The scan "for i = 1..size-1: if (entries[i].last_access < min_access) ...".
RECURSIVE MinAccessScan(_, _, _, _)
MinAccessScan(t, i, min_access, victim) ==
    IF i >= t.size THEN victim
    ELSE IF t.entries[i].last_access < min_access
         THEN MinAccessScan(t, i + 1, t.entries[i].last_access, i)
         ELSE MinAccessScan(t, i + 1, min_access, victim)

\* find_victim whose RANDOM case uses rand() without reducing it modulo size.
find_victim_unreduced(t, r) ==
    LET empty == FirstInvalid(t, 0) IN
    IF empty >= 0 THEN empty
    ELSE IF t.replacement_policy \in {TLB_POLICY_LRU, TLB_POLICY_FIFO}
         THEN MinAccessScan(t, 1, t.entries[0].last_access, 0)
    ELSE IF t.replacement_policy = TLB_POLICY_RANDOM
         THEN r
    ELSE 0

\* find_victim; r is the value rand() returns when it is called.
\* find_victim without the search for an invalid slot.
find_victim_policy_only(t, r) ==
    IF t.replacement_policy = TLB_POLICY_LRU
    THEN MinAccessScan(t, 1, t.entries[0].last_access, 0)
    ELSE IF t.replacement_policy = TLB_POLICY_FIFO
         THEN MinAccessScan(t, 1, t.entries[0].last_access, 0)
    ELSE IF t.replacement_policy = TLB_POLICY_RANDOM
         THEN r % t.size
    ELSE 0

find_victim(t, r) ==
    LET empty == FirstInvalid(t, 0) IN
    IF empty >= 0 THEN empty
    ELSE IF t.replacement_policy = TLB_POLICY_LRU
         THEN MinAccessScan(t, 1, t.entries[0].last_access, 0)
    ELSE IF t.replacement_policy = TLB_POLICY_FIFO
         THEN MinAccessScan(t, 1, t.entries[0].last_access, 0)
    ELSE IF t.replacement_policy = TLB_POLICY_RANDOM
         THEN r % t.size
    ELSE 0

\* The store "entries[slot] = e".  A slot outside the array is a write past the
\* calloc'ed block; the model keeps what was written there.
StoreEntry(entries, slot, e) ==
    [i \in (DOMAIN entries) \cup {slot} |-> IF i = slot THEN e ELSE entries[i]]

\* tlb_insert without the search for an entry that already holds the key.
tlb_insert_nosearch(t, vpn, pfn, dirty, r) ==
    IF t = NULL THEN t
    ELSE LET slot == find_victim(t, r) IN
         [t EXCEPT !.entries =
                       StoreEntry(@, slot,
                           [vpn |-> vpn, pfn |-> pfn, valid |-> 1, dirty |-> dirty,
                            accessed |-> 1, last_access |-> t.access_counter]),
                   !.access_counter = @ + 1]

\* tlb_insert that leaves the dirty bit of an entry it updates.
tlb_insert_keepdirty(t, vpn, pfn, dirty, r) ==
    IF t = NULL THEN t
    ELSE LET i == FindEntry(t, vpn, 0) IN
         IF i >= 0
         THEN [t EXCEPT !.entries[i].pfn = pfn,
                        !.entries[i].accessed = 1,
                        !.entries[i].last_access = t.access_counter,
                        !.access_counter = @ + 1]
         ELSE LET slot == find_victim(t, r) IN
              [t EXCEPT !.entries =
                            StoreEntry(@, slot,
                                [vpn |-> vpn, pfn |-> pfn, valid |-> 1, dirty |-> dirty,
                                 accessed |-> 1, last_access |-> t.access_counter]),
                        !.access_counter = @ + 1]

tlb_insert(t, vpn, pfn, dirty, r) ==
    IF t = NULL THEN t
    ELSE LET i == FindEntry(t, vpn, 0) IN
         IF i >= 0
         THEN [t EXCEPT !.entries[i].pfn = pfn,
                        !.entries[i].dirty = dirty,
                        !.entries[i].accessed = 1,
                        !.entries[i].last_access = t.access_counter,
                        !.access_counter = @ + 1]
         ELSE LET slot == find_victim(t, r) IN
              [t EXCEPT !.entries =
                            StoreEntry(@, slot,
                                [vpn |-> vpn, pfn |-> pfn, valid |-> 1, dirty |-> dirty,
                                 accessed |-> 1, last_access |-> t.access_counter]),
                        !.access_counter = @ + 1]

\* tlb_invalidate that also clears the stamp of the entry it invalidates.
tlb_invalidate_clearing(t, vpn) ==
    IF t = NULL THEN [tlb |-> t, ret |-> 0]
    ELSE LET i == FindEntry(t, vpn, 0) IN
         IF i >= 0
         THEN [tlb |-> [t EXCEPT !.entries[i].valid = 0, !.entries[i].last_access = 0],
               ret |-> 1]
         ELSE [tlb |-> t, ret |-> 0]

tlb_invalidate(t, vpn) ==
    IF t = NULL THEN [tlb |-> t, ret |-> 0]
    ELSE LET i == FindEntry(t, vpn, 0) IN
         IF i >= 0
         THEN [tlb |-> [t EXCEPT !.entries[i].valid = 0], ret |-> 1]
         ELSE [tlb |-> t, ret |-> 0]

\* tlb_access that reports a miss without filling the TLB.
tlb_access_nofill(t, vpn, pfn, dirty, r) ==
    LET l == tlb_lookup(t, vpn) IN
    IF l.ret = 1
    THEN [tlb |-> l.tlb, ret |-> 1]
    ELSE [tlb |-> l.tlb, ret |-> 0]

tlb_access(t, vpn, pfn, dirty, r) ==
    LET l == tlb_lookup(t, vpn) IN
    IF l.ret = 1
    THEN [tlb |-> l.tlb, ret |-> 1]
    ELSE [tlb |-> tlb_insert(l.tlb, vpn, pfn, dirty, r), ret |-> 0]

\* A double is modelled by the exact quotient num / den; divided tells whether
\* a division was carried out to obtain it.
ZeroRate == [num |-> 0, den |-> 1, divided |-> FALSE]

\* tlb_get_hit_rate that divides by the misses.
tlb_get_hit_rate_by_misses(t) ==
    IF t = NULL THEN ZeroRate
    ELSE LET total == t.hits + t.misses IN
         IF total = 0 THEN ZeroRate
         ELSE [num |-> t.hits * 100, den |-> t.misses, divided |-> TRUE]

\* tlb_get_hit_rate: (double)hits / total * 100.0
tlb_get_hit_rate(t) ==
    IF t = NULL THEN ZeroRate
    ELSE LET total == t.hits + t.misses IN
         IF total = 0 THEN ZeroRate
         ELSE [num |-> t.hits * 100, den |-> total, divided |-> TRUE]

(***************************************************************************)
(* Demand-paging simulator (paging_sim.c)                                   *)
(***************************************************************************)

\* The frame count without the upper limit.
ClampFrames_noupper(num_frames) ==
    IF num_frames < 1 THEN 4 ELSE num_frames

\* The frame count paging_init settles on.
ClampFrames(num_frames) ==
    LET n1 == IF num_frames < 1 THEN 4 ELSE num_frames IN
    IF n1 > MAX_PAGING_FRAMES THEN MAX_PAGING_FRAMES ELSE n1

\* paging_init writes every field of the simulator and the first num_frames
\* frames; the frames beyond num_frames are never read.
paging_init(num_frames, policy) ==
    LET n == ClampFrames(num_frames) IN
    [frames |-> [i \in 0..(n - 1) |->
                    [vpn |-> -1, loaded_at |-> 0, last_access |-> 0, reference_bit |-> 0]],
     num_frames |-> n,
     policy |-> policy,
     page_faults |-> 0,
     page_hits |-> 0,
     access_counter |-> 0,
     clock_hand |-> 0,
     initialized |-> 1]

\* The search loop that begins at the second frame.
RECURSIVE FindFrame_skipfirst(_, _, _)
FindFrame_skipfirst(sm, vpn, i) ==
    IF i >= sm.num_frames THEN -1
    ELSE IF i > 0 /\ sm.frames[i].vpn = vpn THEN i
    ELSE FindFrame_skipfirst(sm, vpn, i + 1)

\* The loop "for i: if (frames[i].vpn == vpn) { frame_idx = i; break; }": the
\* first frame from i on that holds vpn, or -1.
RECURSIVE FindFrame(_, _, _)
FindFrame(sm, vpn, i) ==
    IF i >= sm.num_frames THEN -1
    ELSE IF sm.frames[i].vpn = vpn THEN i
    ELSE FindFrame(sm, vpn, i + 1)

\* The minimum scan that reads the loaded_at stamp whatever field it is asked for.
RECURSIVE MinStampScan_loaded(_, _, _, _, _)
MinStampScan_loaded(sm, field, i, min, target) ==
    IF i >= sm.num_frames THEN target
    ELSE IF sm.frames[i].loaded_at < min
         THEN MinStampScan_loaded(sm, field, i + 1, sm.frames[i].loaded_at, i)
         ELSE MinStampScan_loaded(sm, field, i + 1, min, target)

\* The minimum scan that reads the last_access stamp whatever field it is asked for.
RECURSIVE MinStampScan_accessed(_, _, _, _, _)
MinStampScan_accessed(sm, field, i, min, target) ==
    IF i >= sm.num_frames THEN target
    ELSE IF sm.frames[i].last_access < min
         THEN MinStampScan_accessed(sm, field, i + 1, sm.frames[i].last_access, i)
         ELSE MinStampScan_accessed(sm, field, i + 1, min, target)

\* The scan "for i: if (frames[i].<field> < min) { min = ...; target_frame = i; }"
\* started with min = INT_MAX and target_frame = -1.
RECURSIVE MinStampScan(_, _, _, _, _)
MinStampScan(sm, field, i, min, target) ==
    IF i >= sm.num_frames THEN target
    ELSE IF sm.frames[i][field] < min
         THEN MinStampScan(sm, field, i + 1, sm.frames[i][field], i)
         ELSE MinStampScan(sm, field, i + 1, min, target)

\* The model follows the clock loop for this many inspections; a loop that has
\* not found a victim by then is reported with target -1.
ClockFuel(n) == 2 * n + 1

\* The clock loop without the store that clears the reference bit.
RECURSIVE ClockScan_noclear(_, _, _, _)
ClockScan_noclear(frames, hand, n, k) ==
    IF k >= ClockFuel(n)
    THEN [target |-> -1, hand |-> hand, frames |-> frames, inspected |-> k]
    ELSE IF frames[hand].reference_bit = 0
    THEN [target |-> hand, hand |-> (hand + 1) % n, frames |-> frames, inspected |-> k + 1]
    ELSE ClockScan_noclear(frames, (hand + 1) % n, n, k + 1)

\* The clock loop that leaves the hand on the victim.
RECURSIVE ClockScan_hand_on_victim(_, _, _, _)
ClockScan_hand_on_victim(frames, hand, n, k) ==
    IF k >= ClockFuel(n)
    THEN [target |-> -1, hand |-> hand, frames |-> frames, inspected |-> k]
    ELSE IF frames[hand].reference_bit = 0
    THEN [target |-> hand, hand |-> hand, frames |-> frames, inspected |-> k + 1]
    ELSE ClockScan_hand_on_victim([frames EXCEPT ![hand].reference_bit = 0],
                                  (hand + 1) % n, n, k + 1)

\* The loop "while (1)" of the CLOCK case, after k inspections: the victim, the
\* hand and the frames it leaves, and the number of frames it inspected.
RECURSIVE ClockScan(_, _, _, _)
ClockScan(frames, hand, n, k) ==
    IF k >= ClockFuel(n)
    THEN [target |-> -1, hand |-> hand, frames |-> frames, inspected |-> k]
    ELSE IF frames[hand].reference_bit = 0
    THEN [target |-> hand, hand |-> (hand + 1) % n, frames |-> frames, inspected |-> k + 1]
    ELSE ClockScan([frames EXCEPT ![hand].reference_bit = 0], (hand + 1) % n, n, k + 1)

\* The store of a whole frame, frames[target] = f.  A target outside the array
\* is a write outside it; the model keeps what was written there.
StoreFrame(frames, target, f) ==
    [i \in (DOMAIN frames) \cup {target} |-> IF i = target THEN f ELSE frames[i]]

\* paging_access whose hit also restamps the frame's loaded_at.
paging_access_hit_reload(sm, vpn, r) ==
    LET frame_idx == FindFrame(sm, vpn, 0) IN
    IF frame_idx >= 0
    THEN [sim |-> [sm EXCEPT !.page_hits = @ + 1,
                             !.frames[frame_idx].last_access = sm.access_counter,
                             !.frames[frame_idx].reference_bit = 1,
                             !.frames[frame_idx].loaded_at = sm.access_counter,
                             !.access_counter = @ + 1],
          ret |-> 1, frame |-> frame_idx, evict |-> FALSE, evicted |-> -1, inspected |-> 0]
    ELSE
      LET empty == FindFrame(sm, -1, 0)
          scan == IF empty < 0 /\ sm.policy = PAGING_POLICY_CLOCK
                  THEN ClockScan(sm.frames, sm.clock_hand, sm.num_frames, 0)
                  ELSE [target |-> -1, hand |-> sm.clock_hand, frames |-> sm.frames,
                        inspected |-> 0]
          target_frame ==
              IF empty >= 0 THEN empty
              ELSE IF sm.policy = PAGING_POLICY_LRU
                   THEN MinStampScan(sm, "last_access", 0, INT_MAX, -1)
              ELSE IF sm.policy = PAGING_POLICY_FIFO
                   THEN MinStampScan(sm, "loaded_at", 0, INT_MAX, -1)
              ELSE IF sm.policy = PAGING_POLICY_RANDOM
                   THEN r % sm.num_frames
              ELSE IF sm.policy = PAGING_POLICY_CLOCK
                   THEN scan.target
              ELSE -1
      IN [sim |-> [sm EXCEPT
                     !.page_faults = @ + 1,
                     !.clock_hand = scan.hand,
                     !.frames = StoreFrame(scan.frames, target_frame,
                                    [vpn |-> vpn,
                                     loaded_at |-> sm.access_counter,
                                     last_access |-> sm.access_counter,
                                     reference_bit |-> 1]),
                     !.access_counter = @ + 1],
          ret |-> 0, frame |-> target_frame, evict |-> (empty < 0),
          evicted |-> IF empty < 0 /\ target_frame \in DOMAIN sm.frames
                      THEN sm.frames[target_frame].vpn ELSE -1,
          inspected |-> scan.inspected]

\* paging_access whose FIFO case picks its victim without looking for an
\* empty frame.
paging_access_fifo_skips_empty(sm, vpn, r) ==
    LET frame_idx == FindFrame(sm, vpn, 0) IN
    IF frame_idx >= 0
    THEN [sim |-> [sm EXCEPT !.page_hits = @ + 1,
                             !.frames[frame_idx].last_access = sm.access_counter,
                             !.frames[frame_idx].reference_bit = 1,
                             !.access_counter = @ + 1],
          ret |-> 1, frame |-> frame_idx, evict |-> FALSE, evicted |-> -1, inspected |-> 0]
    ELSE
      LET empty == FindFrame(sm, -1, 0)
          scan == IF empty < 0 /\ sm.policy = PAGING_POLICY_CLOCK
                  THEN ClockScan(sm.frames, sm.clock_hand, sm.num_frames, 0)
                  ELSE [target |-> -1, hand |-> sm.clock_hand, frames |-> sm.frames,
                        inspected |-> 0]
          target_frame ==
              IF empty >= 0 /\ sm.policy # PAGING_POLICY_FIFO THEN empty
              ELSE IF sm.policy = PAGING_POLICY_LRU
                   THEN MinStampScan(sm, "last_access", 0, INT_MAX, -1)
              ELSE IF sm.policy = PAGING_POLICY_FIFO
                   THEN MinStampScan(sm, "loaded_at", 0, INT_MAX, -1)
              ELSE IF sm.policy = PAGING_POLICY_RANDOM
                   THEN r % sm.num_frames
              ELSE IF sm.policy = PAGING_POLICY_CLOCK
                   THEN scan.target
              ELSE -1
      IN [sim |-> [sm EXCEPT
                     !.page_faults = @ + 1,
                     !.clock_hand = scan.hand,
                     !.frames = StoreFrame(scan.frames, target_frame,
                                    [vpn |-> vpn,
                                     loaded_at |-> sm.access_counter,
                                     last_access |-> sm.access_counter,
                                     reference_bit |-> 1]),
                     !.access_counter = @ + 1],
          ret |-> 0, frame |-> target_frame, evict |-> (empty < 0),
          evicted |-> IF empty < 0 /\ target_frame \in DOMAIN sm.frames
                      THEN sm.frames[target_frame].vpn ELSE -1,
          inspected |-> scan.inspected]

\* paging_access whose fault path does not advance the access counter.
paging_access_fault_notick(sm, vpn, r) ==
    LET frame_idx == FindFrame(sm, vpn, 0) IN
    IF frame_idx >= 0
    THEN [sim |-> [sm EXCEPT !.page_hits = @ + 1,
                             !.frames[frame_idx].last_access = sm.access_counter,
                             !.frames[frame_idx].reference_bit = 1,
                             !.access_counter = @ + 1],
          ret |-> 1, frame |-> frame_idx, evict |-> FALSE, evicted |-> -1, inspected |-> 0]
    ELSE
      LET empty == FindFrame(sm, -1, 0)
          scan == IF empty < 0 /\ sm.policy = PAGING_POLICY_CLOCK
                  THEN ClockScan(sm.frames, sm.clock_hand, sm.num_frames, 0)
                  ELSE [target |-> -1, hand |-> sm.clock_hand, frames |-> sm.frames,
                        inspected |-> 0]
          target_frame ==
              IF empty >= 0 THEN empty
              ELSE IF sm.policy = PAGING_POLICY_LRU
                   THEN MinStampScan(sm, "last_access", 0, INT_MAX, -1)
              ELSE IF sm.policy = PAGING_POLICY_FIFO
                   THEN MinStampScan(sm, "loaded_at", 0, INT_MAX, -1)
              ELSE IF sm.policy = PAGING_POLICY_RANDOM
                   THEN r % sm.num_frames
              ELSE IF sm.policy = PAGING_POLICY_CLOCK
                   THEN scan.target
              ELSE -1
      IN [sim |-> [sm EXCEPT
                     !.page_faults = @ + 1,
                     !.clock_hand = scan.hand,
                     !.frames = StoreFrame(scan.frames, target_frame,
                                    [vpn |-> vpn,
                                     loaded_at |-> sm.access_counter,
                                     last_access |-> sm.access_counter,
                                     reference_bit |-> 1])],
          ret |-> 0, frame |-> target_frame, evict |-> (empty < 0),
          evicted |-> IF empty < 0 /\ target_frame \in DOMAIN sm.frames
                      THEN sm.frames[target_frame].vpn ELSE -1,
          inspected |-> scan.inspected]

\* paging_access; r is the value rand() returns when it is called.  Besides the
\* simulator and the return value the result tells the frame the page is in
\* (frame), whether a resident page had to be evicted (evict), the page that
\* was evicted (evicted) and the frames the clock loop inspected (inspected).
paging_access(sm, vpn, r) ==
    LET frame_idx == FindFrame(sm, vpn, 0) IN
    IF frame_idx >= 0
    THEN [sim |-> [sm EXCEPT !.page_hits = @ + 1,
                             !.frames[frame_idx].last_access = sm.access_counter,
                             !.frames[frame_idx].reference_bit = 1,
                             !.access_counter = @ + 1],
          ret |-> 1, frame |-> frame_idx, evict |-> FALSE, evicted |-> -1, inspected |-> 0]
    ELSE
      LET empty == FindFrame(sm, -1, 0)
          scan == IF empty < 0 /\ sm.policy = PAGING_POLICY_CLOCK
                  THEN ClockScan(sm.frames, sm.clock_hand, sm.num_frames, 0)
                  ELSE [target |-> -1, hand |-> sm.clock_hand, frames |-> sm.frames,
                        inspected |-> 0]
          target_frame ==
              IF empty >= 0 THEN empty
              ELSE IF sm.policy = PAGING_POLICY_LRU
                   THEN MinStampScan(sm, "last_access", 0, INT_MAX, -1)
              ELSE IF sm.policy = PAGING_POLICY_FIFO
                   THEN MinStampScan(sm, "loaded_at", 0, INT_MAX, -1)
              ELSE IF sm.policy = PAGING_POLICY_RANDOM
                   THEN r % sm.num_frames
              ELSE IF sm.policy = PAGING_POLICY_CLOCK
                   THEN scan.target
              ELSE -1
      IN [sim |-> [sm EXCEPT
                     !.page_faults = @ + 1,
                     !.clock_hand = scan.hand,
                     !.frames = StoreFrame(scan.frames, target_frame,
                                    [vpn |-> vpn,
                                     loaded_at |-> sm.access_counter,
                                     last_access |-> sm.access_counter,
                                     reference_bit |-> 1]),
                     !.access_counter = @ + 1],
          ret |-> 0, frame |-> target_frame, evict |-> (empty < 0),
          evicted |-> IF empty < 0 /\ target_frame \in DOMAIN sm.frames
                      THEN sm.frames[target_frame].vpn ELSE -1,
          inspected |-> scan.inspected]

\* paging_flush that zeroes the hit and fault counts and keeps the access counter.
paging_flush_keepcounter(sm) ==
    [sm EXCEPT !.frames = [i \in DOMAIN sm.frames |->
                              IF i < sm.num_frames /\ i >= 0
                              THEN [sm.frames[i] EXCEPT !.vpn = -1] ELSE sm.frames[i]],
               !.page_hits = 0,
               !.page_faults = 0]

\* paging_flush that empties the frames and keeps the statistics.
paging_flush_keepstats(sm) ==
    [sm EXCEPT !.frames = [i \in DOMAIN sm.frames |->
                              IF i < sm.num_frames
                              THEN [sm.frames[i] EXCEPT !.vpn = -1] ELSE sm.frames[i]]]

\* paging_flush whose loop starts at frame 1.
paging_flush_from1(sm) ==
    [sm EXCEPT !.frames = [i \in DOMAIN sm.frames |->
                              IF i < sm.num_frames /\ i >= 1
                              THEN [sm.frames[i] EXCEPT !.vpn = -1] ELSE sm.frames[i]],
               !.page_hits = 0,
               !.page_faults = 0,
               !.access_counter = 0]

paging_flush(sm) ==
    [sm EXCEPT !.frames = [i \in DOMAIN sm.frames |->
                              IF i < sm.num_frames /\ i >= 0
                              THEN [sm.frames[i] EXCEPT !.vpn = -1] ELSE sm.frames[i]],
               !.page_hits = 0,
               !.page_faults = 0,
               !.access_counter = 0]

(***************************************************************************)
(* 64-bit unsigned arithmetic.  A uint64_t is the function of its 64 bits,  *)
(* bit 0 the least significant; an int is an integer in -2^31 .. 2^31 - 1.  *)
(***************************************************************************)
Bits == 0..63

Zero64 == [i \in Bits |-> 0]

\* The 64-bit value hi * 2^48 + mid * 2^24 + lo of a literal written in three
\* pieces, hi below 2^16, mid and lo below 2^24.
U64(hi, mid, lo) ==
    [i \in Bits |-> IF i < 24 THEN (lo \div 2^i) % 2
                    ELSE IF i < 48 THEN (mid \div 2^(i - 24)) % 2
                    ELSE (hi \div 2^(i - 48)) % 2]

\* The conversion of an int to uint64_t: a negative value is sign-extended.
U64FromInt(n) ==
    IF n >= 0
    THEN [i \in Bits |-> IF i < 31 THEN (n \div 2^i) % 2 ELSE 0]
    ELSE [i \in Bits |-> IF i < 31 THEN (((n + INT_MAX) + 1) \div 2^i) % 2 ELSE 1]

\* The value of the bits lo..up-1 of v, beginning from acc.
RECURSIVE BitsValue(_, _, _)
BitsValue(v, i, lo) ==
    IF i < lo THEN 0 ELSE v[i] * 2^(i - lo) + BitsValue(v, i - 1, lo)

\* The conversion of a uint64_t to int: the low 32 bits, in two's complement.
IntFromU64(v) ==
    BitsValue(v, 30, 0) + (IF v[31] = 1 THEN (-INT_MAX) - 1 ELSE 0)

Shr(v, k) == [i \in Bits |-> IF i + k <= 63 THEN v[i + k] ELSE 0]

Shl(v, k) == [i \in Bits |-> IF i - k >= 0 THEN v[i - k] ELSE 0]

BitAnd(a, b) == [i \in Bits |-> IF a[i] = 1 /\ b[i] = 1 THEN 1 ELSE 0]

BitOr(a, b) == [i \in Bits |-> IF a[i] = 1 \/ b[i] = 1 THEN 1 ELSE 0]

\* a & b on two ints.
IntAnd(a, b) == IntFromU64(BitAnd(U64FromInt(a), U64FromInt(b)))

(***************************************************************************)
(* Address arithmetic (addr_translate.c)                                    *)
(***************************************************************************)
get_vpn(vaddr) == Shr(vaddr, PAGE_SHIFT)

get_page_offset(vaddr) == IntFromU64(BitAnd(vaddr, U64FromInt(PAGE_OFFSET_MASK)))

\* construct_physical_address without the shift of the frame number.
construct_physical_address_noshift(pfn, offset) ==
    BitOr(pfn, U64FromInt(IntAnd(offset, PAGE_OFFSET_MASK)))

\* construct_physical_address without the mask on the offset.
construct_physical_address_nomask(pfn, offset) ==
    BitOr(Shl(pfn, PAGE_SHIFT), U64FromInt(offset))

construct_physical_address(pfn, offset) ==
    BitOr(Shl(pfn, PAGE_SHIFT), U64FromInt(IntAnd(offset, PAGE_OFFSET_MASK)))

\* extract_page_indices with an index mask of eight bits.
extract_page_indices_mask8(vaddr) ==
    [pml4_idx |-> IntFromU64(BitAnd(Shr(vaddr, PML4_SHIFT), U64FromInt(255))),
     pdpt_idx |-> IntFromU64(BitAnd(Shr(vaddr, PDPT_SHIFT), U64FromInt(255))),
     pd_idx   |-> IntFromU64(BitAnd(Shr(vaddr, PD_SHIFT), U64FromInt(255))),
     pt_idx   |-> IntFromU64(BitAnd(Shr(vaddr, PT_SHIFT), U64FromInt(255))),
     offset   |-> IntFromU64(BitAnd(vaddr, U64FromInt(PAGE_OFFSET_MASK)))]

\* extract_page_indices with the shifts of the second and third level exchanged.
extract_page_indices_swapped(vaddr) ==
    [pml4_idx |-> IntFromU64(BitAnd(Shr(vaddr, PML4_SHIFT), U64FromInt(PT_INDEX_MASK))),
     pdpt_idx |-> IntFromU64(BitAnd(Shr(vaddr, PD_SHIFT), U64FromInt(PT_INDEX_MASK))),
     pd_idx   |-> IntFromU64(BitAnd(Shr(vaddr, PDPT_SHIFT), U64FromInt(PT_INDEX_MASK))),
     pt_idx   |-> IntFromU64(BitAnd(Shr(vaddr, PT_SHIFT), U64FromInt(PT_INDEX_MASK))),
     offset   |-> IntFromU64(BitAnd(vaddr, U64FromInt(PAGE_OFFSET_MASK)))]

\* The five values extract_page_indices stores through its pointers.
extract_page_indices(vaddr) ==
    [pml4_idx |-> IntFromU64(BitAnd(Shr(vaddr, PML4_SHIFT), U64FromInt(PT_INDEX_MASK))),
     pdpt_idx |-> IntFromU64(BitAnd(Shr(vaddr, PDPT_SHIFT), U64FromInt(PT_INDEX_MASK))),
     pd_idx   |-> IntFromU64(BitAnd(Shr(vaddr, PD_SHIFT), U64FromInt(PT_INDEX_MASK))),
     pt_idx   |-> IntFromU64(BitAnd(Shr(vaddr, PT_SHIFT), U64FromInt(PT_INDEX_MASK))),
     offset   |-> IntFromU64(BitAnd(vaddr, U64FromInt(PAGE_OFFSET_MASK)))]

(***************************************************************************)
(* The pagemap reader (proc_reader.c)                                       *)
(***************************************************************************)
PM_PRESENT == Shl(U64FromInt(1), 63)
PM_SWAPPED == Shl(U64FromInt(1), 62)
PM_PFN_MASK == [i \in Bits |-> IF i < 55 THEN 1 ELSE 0]    \* (1ULL << 55) - 1

\* What open, lseek and read of /proc/<pid>/pagemap can do to one call.
IoOutcomes == {"ok", "open_fails", "lseek_fails", "read_fails"}

\* read_pagemap_entry(pid, vaddr, pte): io is the outcome of the system calls
\* and pagemap_entry the eight bytes the file holds for the page.  On a failure
\* *pte is left as the caller passed it.
read_pagemap_entry(io, pagemap_entry, vaddr, pte) ==
    IF io # "ok" THEN [ret |-> -1, pte |-> pte]
    ELSE
      LET present == IF BitAnd(pagemap_entry, PM_PRESENT) # Zero64 THEN 1 ELSE 0
          swapped == IF BitAnd(pagemap_entry, PM_SWAPPED) # Zero64 THEN 1 ELSE 0
      IN [ret |-> 0,
          pte |-> [pte EXCEPT
                     !.vpn = Shr(vaddr, PAGE_SHIFT),
                     !.present = present,
                     !.swapped = swapped,
                     !.pfn = IF present # 0 THEN BitAnd(pagemap_entry, PM_PFN_MASK)
                             ELSE Zero64,
                     !.swap_offset = IF present = 0 /\ swapped # 0
                                     THEN BitAnd(pagemap_entry, PM_PFN_MASK) ELSE @,
                     !.dirty = 0,
                     !.accessed = 0,
                     !.writeable = 0,
                     !.executable = 0,
                     !.user = 1]]

(***************************************************************************)
(* The page table walk (addr_translate.c)                                   *)
(***************************************************************************)
\* error_msg: the format snprintf was given and the value it printed; "" is
\* the empty string memset leaves.
NoMsg == [text |-> ""]

\* memset(result, 0, sizeof(PageWalkResult))
PageWalkResultZero ==
    [virtual_addr |-> Zero64,
     pml4_index |-> 0, pdpt_index |-> 0, pd_index |-> 0, pt_index |-> 0,
     page_offset |-> 0,
     physical_addr |-> Zero64,
     pte |-> [vpn |-> Zero64, pfn |-> Zero64, present |-> 0, dirty |-> 0,
              accessed |-> 0, writeable |-> 0, executable |-> 0, user |-> 0,
              swapped |-> 0, swap_offset |-> Zero64],
     success |-> 0,
     error_msg |-> NoMsg]

\* The part of walk_page_table after the reader has returned 0, with the
\* swapped flag tested before the present flag.
WalkAfterRead_swapfirst(r1) ==
    IF r1.pte.swapped # 0
    THEN [ret |-> -1,
          result |-> [r1 EXCEPT
                        !.success = 0,
                        !.error_msg = [text |-> "Page is swapped out (swap offset: 0x%lx)",
                                       arg |-> r1.pte.swap_offset]]]
    ELSE IF r1.pte.present = 0
    THEN [ret |-> -1,
          result |-> [r1 EXCEPT
                        !.success = 0,
                        !.error_msg = [text |-> "Page not present (not yet accessed or demand paging)"]]]
    ELSE [ret |-> 0,
          result |-> [r1 EXCEPT
                        !.physical_addr =
                            construct_physical_address(r1.pte.pfn, r1.page_offset),
                        !.success = 1]]

\* The part of walk_page_table after the reader has returned 0.
WalkAfterRead(r1) ==
    IF r1.pte.present = 0
    THEN [ret |-> -1,
          result |-> [r1 EXCEPT
                        !.success = 0,
                        !.error_msg =
                            IF r1.pte.swapped # 0
                            THEN [text |-> "Page is swapped out (swap offset: 0x%lx)",
                                  arg |-> r1.pte.swap_offset]
                            ELSE [text |-> "Page not present (not yet accessed or demand paging)"]]]
    ELSE [ret |-> 0,
          result |-> [r1 EXCEPT
                        !.physical_addr =
                            construct_physical_address(r1.pte.pfn, r1.page_offset),
                        !.success = 1]]

\* walk_page_table that goes on to the entry whatever the reader returned.
walk_page_table_unchecked(pid, vaddr, io, pagemap_entry) ==
    LET idx == extract_page_indices(vaddr)
        r0 == [PageWalkResultZero EXCEPT
                 !.virtual_addr = vaddr,
                 !.pml4_index = idx.pml4_idx, !.pdpt_index = idx.pdpt_idx,
                 !.pd_index = idx.pd_idx, !.pt_index = idx.pt_idx,
                 !.page_offset = idx.offset]
        rd == read_pagemap_entry(io, pagemap_entry, vaddr, r0.pte)
        w == WalkAfterRead([r0 EXCEPT !.pte = rd.pte])
    IN [ret |-> w.ret, result |-> w.result, reads |-> 1]

\* walk_page_table that calls the reader a second time when the first call
\* failed.
walk_page_table_retry(pid, vaddr, io, pagemap_entry) ==
    LET idx == extract_page_indices(vaddr)
        r0 == [PageWalkResultZero EXCEPT
                 !.virtual_addr = vaddr,
                 !.pml4_index = idx.pml4_idx, !.pdpt_index = idx.pdpt_idx,
                 !.pd_index = idx.pd_idx, !.pt_index = idx.pt_idx,
                 !.page_offset = idx.offset]
        rd1 == read_pagemap_entry(io, pagemap_entry, vaddr, r0.pte)
        rd == IF rd1.ret # 0
              THEN read_pagemap_entry(io, pagemap_entry, vaddr, rd1.pte)
              ELSE rd1
        w == IF rd.ret # 0
             THEN [ret |-> -1,
                   result |-> [r0 EXCEPT
                                 !.pte = rd.pte,
                                 !.success = 0,
                                 !.error_msg = [text |-> "Failed to read pagemap for PID %d (need root?)",
                                                arg |-> pid]]]
             ELSE WalkAfterRead([r0 EXCEPT !.pte = rd.pte])
    IN [ret |-> w.ret, result |-> w.result,
        reads |-> IF rd1.ret # 0 THEN 2 ELSE 1]

\* walk_page_table(pid, vaddr, result): the result it fills in, the value it
\* returns and the number of calls of read_pagemap_entry it made.
walk_page_table(pid, vaddr, io, pagemap_entry) ==
    LET idx == extract_page_indices(vaddr)
        r0 == [PageWalkResultZero EXCEPT
                 !.virtual_addr = vaddr,
                 !.pml4_index = idx.pml4_idx, !.pdpt_index = idx.pdpt_idx,
                 !.pd_index = idx.pd_idx, !.pt_index = idx.pt_idx,
                 !.page_offset = idx.offset]
        rd == read_pagemap_entry(io, pagemap_entry, vaddr, r0.pte)
        w == IF rd.ret # 0
             THEN [ret |-> -1,
                   result |-> [r0 EXCEPT
                                 !.pte = rd.pte,
                                 !.success = 0,
                                 !.error_msg = [text |-> "Failed to read pagemap for PID %d (need root?)",
                                                arg |-> pid]]]
             ELSE WalkAfterRead([r0 EXCEPT !.pte = rd.pte])
    IN [ret |-> w.ret, result |-> w.result, reads |-> 1]

translate_address(pid, vaddr, io, pagemap_entry) ==
    walk_page_table(pid, vaddr, io, pagemap_entry)

(***************************************************************************)
(* Initial state: no simulator exists, no call has been made.               *)
(***************************************************************************)
NoOp == [name |-> "none"]

\* History of a TLB object: calls counts the calls made on it, touched lists the
\* resident keys from the least to the most recently inserted or looked up,
\* entered lists them in the order in which they became resident, and reset
\* tells whether tlb_reset_stats was called.
TlbHistZero == [calls |-> 0, touched |-> <<>>, entered |-> <<>>, reset |-> FALSE]

\* History of the paging simulator: calls counts the calls made since
\* paging_init; pages is the set of pages accessed since the last paging_init or
\* paging_flush, and distinct tells whether those accesses were to pairwise
\* distinct, non-negative pages.
PagingHistZero == [calls |-> 0, pages |-> {}, distinct |-> TRUE]

Init ==
    /\ tlb = NULL
    /\ tlb_op = NoOp
    /\ tlb_hist = TlbHistZero
    /\ sim = NULL
    /\ paging_op = NoOp
    /\ paging_hist = PagingHistZero
    /\ walk = NULL
    /\ walk_op = NoOp

(***************************************************************************)
(* TLB actions: one per entry point of tlb_sim.c.                           *)
(***************************************************************************)
TlbSizes == {-1, 0} \cup (1..MaxTlbSize) \cup {TLB_MAX_SIZE + 1}
Vpns == {0, 1, 2}
Rands == 0..MaxTlbSize      \* values of rand(): every residue modulo every size

\* The mapping a caller supplies for vpn: a frame number of its own per page,
\* with the dirty bit set.
MappingOf(vpn) == [pfn |-> 16 + vpn, dirty |-> 1]

\* rand() is called by an insert of vpn only when find_victim reaches its RANDOM
\* case; otherwise no value is drawn (modelled as the single value 0).
RandsFor(t, vpn) ==
    IF /\ t # NULL
       /\ FindEntry(t, vpn, 0) < 0
       /\ FirstInvalid(t, 0) < 0
       /\ t.replacement_policy = TLB_POLICY_RANDOM
    THEN Rands ELSE {0}

othervars_tlb == <<sim, paging_op, paging_hist, walk, walk_op>>

\* The keys that a lookup of t finds.
Resident(t) ==
    IF t = NULL THEN {}
    ELSE {t.entries[i].vpn : i \in {j \in DOMAIN t.entries : t.entries[j].valid = 1}}

\* The number of valid entries of t.
ValidCount(t) == Cardinality({i \in DOMAIN t.entries : t.entries[i].valid = 1})

\* seq without the elements outside keep.
RECURSIVE Restrict(_, _)
Restrict(seq, keep) ==
    IF seq = <<>> THEN <<>>
    ELSE IF Head(seq) \in keep
         THEN <<Head(seq)>> \o Restrict(Tail(seq), keep)
         ELSE Restrict(Tail(seq), keep)

\* The history after a call that left the TLB as t2; used tells whether the call
\* inserted vpn or found it by a lookup.
TlbHistAfter(t2, vpn, used) ==
    [tlb_hist EXCEPT
        !.calls = @ + 1,
        !.touched = IF used /\ vpn \in Resident(t2)
                    THEN Restrict(@, Resident(t2) \ {vpn}) \o <<vpn>>
                    ELSE Restrict(@, Resident(t2)),
        !.entered = Restrict(@, Resident(t2)) \o
                    (IF vpn \in Resident(t2) \ Resident(tlb) THEN <<vpn>> ELSE <<>>)]

\* The run is bounded by the number of calls made on one TLB object.
TlbRoom == tlb_hist.calls < MaxTlbCalls

TlbInit(size, policy) ==
    /\ tlb = NULL
    /\ tlb' = tlb_init(size, policy)
    /\ tlb_hist' = TlbHistZero
    /\ tlb_op' = [name |-> "init", size |-> size, policy |-> policy]
    /\ UNCHANGED othervars_tlb

TlbLookup(vpn) ==
    /\ TlbRoom
    /\ LET l == tlb_lookup(tlb, vpn) IN
        /\ tlb' = l.tlb
        /\ tlb_op' = [name |-> "lookup", vpn |-> vpn, ret |-> l.ret, pfn |-> l.pfn]
        /\ tlb_hist' = TlbHistAfter(l.tlb, vpn, l.ret = 1)
    /\ UNCHANGED othervars_tlb

TlbInsert(vpn, pfn, dirty, r) ==
    /\ TlbRoom
    /\ LET t2 == tlb_insert(tlb, vpn, pfn, dirty, r) IN
        /\ tlb' = t2
        /\ tlb_op' = [name |-> "insert", vpn |-> vpn, pfn |-> pfn, dirty |-> dirty,
                      evicted |-> Resident(tlb) \ Resident(t2)]
        /\ tlb_hist' = TlbHistAfter(t2, vpn, TRUE)
    /\ UNCHANGED othervars_tlb

TlbInvalidate(vpn) ==
    /\ TlbRoom
    /\ LET v == tlb_invalidate(tlb, vpn) IN
        /\ tlb' = v.tlb
        /\ tlb_op' = [name |-> "invalidate", vpn |-> vpn, ret |-> v.ret]
        /\ tlb_hist' = TlbHistAfter(v.tlb, vpn, FALSE)
    /\ UNCHANGED othervars_tlb

TlbAccess(vpn, pfn, dirty, r) ==
    /\ TlbRoom
    /\ LET a == tlb_access(tlb, vpn, pfn, dirty, r) IN
        /\ tlb' = a.tlb
        /\ tlb_op' = [name |-> "access", vpn |-> vpn, pfn |-> pfn, dirty |-> dirty,
                      ret |-> a.ret, evicted |-> Resident(tlb) \ Resident(a.tlb)]
        /\ tlb_hist' = TlbHistAfter(a.tlb, vpn, TRUE)
    /\ UNCHANGED othervars_tlb

TlbFlush ==
    /\ TlbRoom
    /\ tlb' = tlb_flush(tlb)
    /\ tlb_op' = [name |-> "flush"]
    /\ tlb_hist' = TlbHistAfter(tlb_flush(tlb), 0, FALSE)
    /\ UNCHANGED othervars_tlb

TlbResetStats ==
    /\ TlbRoom
    /\ tlb' = tlb_reset_stats(tlb)
    /\ tlb_op' = [name |-> "reset_stats"]
    /\ tlb_hist' = [TlbHistAfter(tlb, 0, FALSE) EXCEPT !.reset = TRUE]
    /\ UNCHANGED othervars_tlb

\* tlb_free: the object is gone; global_tlb is NULL until the next tlb_init.
TlbFree ==
    /\ tlb # NULL
    /\ tlb' = NULL
    /\ tlb_op' = [name |-> "free"]
    /\ tlb_hist' = TlbHistZero
    /\ UNCHANGED othervars_tlb

NextTLB ==
    \/ \E size \in TlbSizes, policy \in Policies : TlbInit(size, policy)
    \/ \E vpn \in Vpns : TlbLookup(vpn)
    \/ \E vpn \in Vpns : \E r \in RandsFor(tlb, vpn) :
           TlbInsert(vpn, MappingOf(vpn).pfn, MappingOf(vpn).dirty, r)
    \/ \E vpn \in Vpns : TlbInvalidate(vpn)
    \/ \E vpn \in Vpns : \E r \in RandsFor(tlb, vpn) :
           TlbAccess(vpn, MappingOf(vpn).pfn, MappingOf(vpn).dirty, r)
    \/ TlbFlush
    \/ TlbResetStats
    \/ TlbFree

SpecTLB == Init /\ [][NextTLB]_vars

\* The TLB with the callers' data varied: two keys, each inserted with either
\* of two frame numbers and either dirty bit; tlb_access is given the key's own
\* mapping.
DataVpns == {0, 1}
DataPfns == {16, 17}
DataDirties == {0, 1}

NextTlbData ==
    \/ \E size \in 1..MaxTlbSize, policy \in Policies : TlbInit(size, policy)
    \/ \E vpn \in DataVpns : TlbLookup(vpn)
    \/ \E vpn \in DataVpns, pfn \in DataPfns, dirty \in DataDirties :
           \E r \in RandsFor(tlb, vpn) : TlbInsert(vpn, pfn, dirty, r)
    \/ \E vpn \in DataVpns : TlbInvalidate(vpn)
    \/ \E vpn \in DataVpns : \E r \in RandsFor(tlb, vpn) :
           TlbAccess(vpn, MappingOf(vpn).pfn, MappingOf(vpn).dirty, r)
    \/ TlbFlush
    \/ TlbResetStats
    \/ TlbFree

SpecTlbData == Init /\ [][NextTlbData]_vars

\* tlb_get_hit_rate reads the TLB, which may be NULL, and changes nothing.
TlbGetHitRate ==
    /\ tlb_op.name # "hit_rate"
    /\ tlb_op' = [name |-> "hit_rate", rate |-> tlb_get_hit_rate(tlb)]
    /\ UNCHANGED <<tlb, tlb_hist, othervars_tlb>>

\* The TLB with its statistics read between the calls.
NextTlbStats ==
    \/ NextTLB
    \/ TlbGetHitRate

SpecTlbStats == Init /\ [][NextTlbStats]_vars

\* Construction alone, over sizes around both limits of tlb_init.
TlbInitSizes == (-3..MaxInitSize) \cup ((TLB_MAX_SIZE - 3)..(TLB_MAX_SIZE + 3))

NextTlbInit ==
    \/ \E size \in TlbInitSizes, policy \in Policies : TlbInit(size, policy)
    \/ TlbFree

SpecTlbInit == Init /\ [][NextTlbInit]_vars

(***************************************************************************)
(* Paging actions: paging_init, paging_access and paging_flush, as the      *)
(* "paging" command calls them on global_paging.                            *)
(***************************************************************************)
FrameArgs == {-1, 0} \cup (1..MaxFrames) \cup {MAX_PAGING_FRAMES, MAX_PAGING_FRAMES + 1}
PagingPolicies == {PAGING_POLICY_LRU, PAGING_POLICY_FIFO, PAGING_POLICY_RANDOM, PAGING_POLICY_CLOCK}
PagingVpns == {-1, 0, 1, 2}
PagingRands == 0..MaxFrames

\* rand() is called by an access only in the RANDOM case of an eviction;
\* otherwise no value is drawn (modelled as the single value 0).
PagingRandsFor(sm, vpn) ==
    IF /\ sm # NULL
       /\ FindFrame(sm, vpn, 0) < 0
       /\ FindFrame(sm, -1, 0) < 0
       /\ sm.policy = PAGING_POLICY_RANDOM
    THEN PagingRands ELSE {0}

othervars_paging == <<tlb, tlb_op, tlb_hist, walk, walk_op>>

\* The run is bounded by the number of calls made after one paging_init.
PagingRoom == paging_hist.calls < MaxPagingCalls

PagingInit(num_frames, policy) ==
    /\ sim' = paging_init(num_frames, policy)
    /\ paging_op' = [name |-> "init", num_frames |-> num_frames, policy |-> policy]
    /\ paging_hist' = PagingHistZero
    /\ UNCHANGED othervars_paging

PagingAccess(vpn, r) ==
    /\ sim # NULL
    /\ PagingRoom
    /\ LET a == paging_access(sim, vpn, r) IN
        /\ sim' = a.sim
        /\ paging_op' = [name |-> "access", vpn |-> vpn, ret |-> a.ret, frame |-> a.frame,
                         evict |-> a.evict, evicted |-> a.evicted,
                         inspected |-> a.inspected]
    /\ paging_hist' = [calls |-> paging_hist.calls + 1,
                       pages |-> paging_hist.pages \cup {vpn},
                       distinct |-> /\ paging_hist.distinct
                                    /\ vpn >= 0
                                    /\ vpn \notin paging_hist.pages]
    /\ UNCHANGED othervars_paging

PagingFlush ==
    /\ sim # NULL
    /\ PagingRoom
    /\ sim' = paging_flush(sim)
    /\ paging_op' = [name |-> "flush"]
    /\ paging_hist' = [calls |-> paging_hist.calls + 1, pages |-> {}, distinct |-> TRUE]
    /\ UNCHANGED othervars_paging

NextPaging ==
    \/ \E num_frames \in FrameArgs, policy \in PagingPolicies : PagingInit(num_frames, policy)
    \/ \E vpn \in PagingVpns : \E r \in PagingRandsFor(sim, vpn) : PagingAccess(vpn, r)
    \/ PagingFlush

SpecPaging == Init /\ [][NextPaging]_vars

\* The frame table under CLOCK alone, with one more frame and one more call
\* than above, so that the hand meets set and unset reference bits in turn.
ClockFrames == 1..MaxClockFrames
ClockVpns == {0, 1, 2, 3}
ClockRoom == paging_hist.calls < MaxClockCalls

ClockAccess(vpn) ==
    /\ sim # NULL
    /\ ClockRoom
    /\ LET a == paging_access(sim, vpn, 0) IN
        /\ sim' = a.sim
        /\ paging_op' = [name |-> "access", vpn |-> vpn, ret |-> a.ret, frame |-> a.frame,
                         evict |-> a.evict, evicted |-> a.evicted,
                         inspected |-> a.inspected]
    /\ paging_hist' = [calls |-> paging_hist.calls + 1,
                       pages |-> paging_hist.pages \cup {vpn},
                       distinct |-> paging_hist.distinct /\ vpn \notin paging_hist.pages]
    /\ UNCHANGED othervars_paging

ClockFlush ==
    /\ sim # NULL
    /\ ClockRoom
    /\ sim' = paging_flush(sim)
    /\ paging_op' = [name |-> "flush"]
    /\ paging_hist' = [calls |-> paging_hist.calls + 1, pages |-> {}, distinct |-> TRUE]
    /\ UNCHANGED othervars_paging

NextClock ==
    \/ \E num_frames \in ClockFrames : PagingInit(num_frames, PAGING_POLICY_CLOCK)
    \/ \E vpn \in ClockVpns : ClockAccess(vpn)
    \/ ClockFlush

SpecClock == Init /\ [][NextClock]_vars

\* The frame table under LRU alone.  Here the history also keeps the pages
\* accessed since the table was last empty, each once, from the least to the
\* most recently accessed.
LruFrames == 1..MaxLruFrames
LruVpns == {-1, 0, 1, 2, 3}
LruRoom == paging_hist.calls < MaxLruCalls
LruHistZero == [calls |-> 0, pages |-> {}, distinct |-> TRUE, recent |-> <<>>]

\* The sequence q without x.
Without(q, x) == SelectSeq(q, LAMBDA y : y # x)

LruInit(num_frames) ==
    /\ sim' = paging_init(num_frames, PAGING_POLICY_LRU)
    /\ paging_op' = [name |-> "init", num_frames |-> num_frames,
                     policy |-> PAGING_POLICY_LRU]
    /\ paging_hist' = LruHistZero
    /\ UNCHANGED othervars_paging

LruAccess(vpn) ==
    /\ sim # NULL
    /\ LruRoom
    /\ LET a == paging_access(sim, vpn, 0) IN
        /\ sim' = a.sim
        /\ paging_op' = [name |-> "access", vpn |-> vpn, ret |-> a.ret, frame |-> a.frame,
                         evict |-> a.evict, evicted |-> a.evicted,
                         inspected |-> a.inspected]
    /\ paging_hist' = [calls |-> paging_hist.calls + 1,
                       pages |-> paging_hist.pages \cup {vpn},
                       distinct |-> paging_hist.distinct /\ vpn \notin paging_hist.pages,
                       recent |-> Append(Without(paging_hist.recent, vpn), vpn)]
    /\ UNCHANGED othervars_paging

LruFlush ==
    /\ sim # NULL
    /\ LruRoom
    /\ sim' = paging_flush(sim)
    /\ paging_op' = [name |-> "flush"]
    /\ paging_hist' = [LruHistZero EXCEPT !.calls = paging_hist.calls + 1]
    /\ UNCHANGED othervars_paging

NextLru ==
    \/ \E num_frames \in LruFrames : LruInit(num_frames)
    \/ \E vpn \in LruVpns : LruAccess(vpn)
    \/ LruFlush

SpecLru == Init /\ [][NextLru]_vars

\* The frame table under FIFO alone.  Here the history also keeps the pages
\* loaded since the table was last empty, each once, from the earliest to the
\* latest load.
FifoFrames == 1..MaxFifoFrames
FifoVpns == {-1, 0, 1, 2, 3}
FifoRoom == paging_hist.calls < MaxFifoCalls
FifoHistZero == [calls |-> 0, pages |-> {}, distinct |-> TRUE, loads |-> <<>>]

FifoInit(num_frames) ==
    /\ sim' = paging_init(num_frames, PAGING_POLICY_FIFO)
    /\ paging_op' = [name |-> "init", num_frames |-> num_frames,
                     policy |-> PAGING_POLICY_FIFO]
    /\ paging_hist' = FifoHistZero
    /\ UNCHANGED othervars_paging

FifoAccess(vpn) ==
    /\ sim # NULL
    /\ FifoRoom
    /\ LET a == paging_access(sim, vpn, 0) IN
        /\ sim' = a.sim
        /\ paging_op' = [name |-> "access", vpn |-> vpn, ret |-> a.ret, frame |-> a.frame,
                         evict |-> a.evict, evicted |-> a.evicted,
                         inspected |-> a.inspected]
        /\ paging_hist' = [calls |-> paging_hist.calls + 1,
                           pages |-> paging_hist.pages \cup {vpn},
                           distinct |-> paging_hist.distinct /\ vpn \notin paging_hist.pages,
                           loads |-> IF a.ret = 0
                                     THEN Append(Without(paging_hist.loads, vpn), vpn)
                                     ELSE paging_hist.loads]
    /\ UNCHANGED othervars_paging

FifoFlush ==
    /\ sim # NULL
    /\ FifoRoom
    /\ sim' = paging_flush(sim)
    /\ paging_op' = [name |-> "flush"]
    /\ paging_hist' = [FifoHistZero EXCEPT !.calls = paging_hist.calls + 1]
    /\ UNCHANGED othervars_paging

NextFifo ==
    \/ \E num_frames \in FifoFrames : FifoInit(num_frames)
    \/ \E vpn \in FifoVpns : FifoAccess(vpn)
    \/ FifoFlush

SpecFifo == Init /\ [][NextFifo]_vars

\* The frame table run beside a second one: the history keeps, as fresh, the
\* table that paging_init makes for the same frame count and policy, started
\* anew at every paging_flush of the first and given the same accesses.
TwinFrames == 1..MaxTwinFrames
TwinPolicies == {PAGING_POLICY_LRU, PAGING_POLICY_FIFO, PAGING_POLICY_CLOCK}
TwinVpns == {0, 1, 2}
TwinRoom == paging_hist.calls < MaxTwinCalls

TwinInit(num_frames, policy) ==
    /\ sim' = paging_init(num_frames, policy)
    /\ paging_op' = [name |-> "init", num_frames |-> num_frames, policy |-> policy]
    /\ paging_hist' = [calls |-> 0, pages |-> {}, distinct |-> TRUE, flushed |-> FALSE,
                       fresh |-> paging_init(num_frames, policy)]
    /\ UNCHANGED othervars_paging

TwinAccess(vpn) ==
    /\ sim # NULL
    /\ TwinRoom
    /\ LET a == paging_access(sim, vpn, 0)
           b == paging_access(paging_hist.fresh, vpn, 0)
       IN
        /\ sim' = a.sim
        /\ paging_op' = [name |-> "access", vpn |-> vpn, ret |-> a.ret, frame |-> a.frame,
                         evict |-> a.evict, evicted |-> a.evicted,
                         inspected |-> a.inspected,
                         fresh_ret |-> b.ret, fresh_frame |-> b.frame,
                         fresh_evict |-> b.evict, fresh_evicted |-> b.evicted]
        /\ paging_hist' = [paging_hist EXCEPT
                              !.calls = @ + 1,
                              !.pages = @ \cup {vpn},
                              !.distinct = @ /\ vpn \notin paging_hist.pages,
                              !.fresh = b.sim]
    /\ UNCHANGED othervars_paging

TwinFlush ==
    /\ sim # NULL
    /\ TwinRoom
    /\ sim' = paging_flush(sim)
    /\ paging_op' = [name |-> "flush"]
    /\ paging_hist' = [calls |-> paging_hist.calls + 1, pages |-> {}, distinct |-> TRUE,
                       flushed |-> TRUE,
                       fresh |-> paging_init(sim.num_frames, sim.policy)]
    /\ UNCHANGED othervars_paging

NextTwin ==
    \/ \E num_frames \in TwinFrames, policy \in TwinPolicies : TwinInit(num_frames, policy)
    \/ \E vpn \in TwinVpns : TwinAccess(vpn)
    \/ TwinFlush

SpecTwin == Init /\ [][NextTwin]_vars

(***************************************************************************)
(* The 'paging' command (cmd_paging of paging_sim.c): what it prints for an  *)
(* access beside what paging_access does.                                    *)
(***************************************************************************)
\* "int vpn = (int)(vaddr >> 12)": the low 32 bits of the shifted address.
CmdVpn(vaddr) == IntFromU64(Shr(vaddr, 12))

\* The 'access' branch with an initialised simulator: the message is worked
\* out from the state before paging_access is called.  printed is the message
\* with the frame and the evicted page it names; access is what paging_access
\* returned and did.
cmd_paging_access(sm, vaddr, r) ==
    LET vpn == CmdVpn(vaddr)
        frame_idx == FindFrame(sm, vpn, 0)
        a == paging_access(sm, vpn, r)
    IN
    IF frame_idx >= 0
    THEN [sim |-> a.sim, vpn |-> vpn, access |-> a,
          printed |-> [msg |-> "PAGE HIT", frame |-> frame_idx, evicted_vpn |-> -1]]
    ELSE
      LET empty == FindFrame(sm, -1, 0)
          target ==
              IF empty >= 0 THEN empty
              ELSE IF sm.policy = PAGING_POLICY_LRU
                   THEN MinStampScan(sm, "last_access", 0, INT_MAX, -1)
              ELSE IF sm.policy = PAGING_POLICY_FIFO
                   THEN MinStampScan(sm, "loaded_at", 0, INT_MAX, -1)
              ELSE 0
          evicted_vpn == IF empty < 0 THEN sm.frames[target].vpn ELSE -1
      IN [sim |-> a.sim, vpn |-> vpn, access |-> a,
          printed |-> [msg |-> IF evicted_vpn >= 0 THEN "PAGE FAULT evicted"
                               ELSE "PAGE FAULT loaded",
                       frame |-> target, evicted_vpn |-> evicted_vpn]]

\* Addresses given to 'paging access': pages 0, 1 and 2, a second address of
\* page 0, and the address 2^44, whose page number is 2^32.
CmdAddrs ==
    {Zero64, U64(0, 0, 4095), U64(0, 0, 4096), U64(0, 0, 8192), U64(0, 1048576, 0)}
CmdFrames == 1..MaxCmdFrames
CmdRoom == paging_hist.calls < MaxCmdCalls

\* The history of the commands: loaded is the set of frames that an access has
\* loaded, and owner tells, for each of them, the page (the whole of
\* vaddr >> 12) of the address whose access last loaded the frame.
CmdHistZero(n) ==
    [calls |-> 0, pages |-> {}, distinct |-> TRUE, loaded |-> {},
     owner |-> [i \in 0..(n - 1) |-> Zero64]]

CmdPagingInit(num_frames, policy) ==
    /\ sim' = paging_init(num_frames, policy)
    /\ paging_op' = [name |-> "init", num_frames |-> num_frames, policy |-> policy]
    /\ paging_hist' = CmdHistZero(ClampFrames(num_frames))
    /\ UNCHANGED othervars_paging

CmdPagingAccess(vaddr, r) ==
    /\ sim # NULL
    /\ CmdRoom
    /\ LET c == cmd_paging_access(sim, vaddr, r) IN
        /\ sim' = c.sim
        /\ paging_op' = [name |-> "access", vaddr |-> vaddr, vpn |-> c.vpn,
                         printed |-> c.printed,
                         ret |-> c.access.ret, frame |-> c.access.frame,
                         evict |-> c.access.evict, evicted |-> c.access.evicted]
        /\ paging_hist' = [paging_hist EXCEPT
                              !.calls = @ + 1,
                              !.pages = @ \cup {c.vpn},
                              !.distinct = @ /\ c.vpn \notin paging_hist.pages,
                              !.loaded = IF c.access.ret = 0
                                         THEN @ \cup {c.access.frame} ELSE @,
                              !.owner = IF c.access.ret = 0
                                        THEN [@ EXCEPT ![c.access.frame] = get_vpn(vaddr)]
                                        ELSE @]
    /\ UNCHANGED othervars_paging

CmdPagingFlush ==
    /\ sim # NULL
    /\ CmdRoom
    /\ sim' = paging_flush(sim)
    /\ paging_op' = [name |-> "flush"]
    /\ paging_hist' = [CmdHistZero(sim.num_frames) EXCEPT !.calls = paging_hist.calls + 1]
    /\ UNCHANGED othervars_paging

NextCmdPaging ==
    \/ \E num_frames \in CmdFrames, policy \in PagingPolicies :
           CmdPagingInit(num_frames, policy)
    \/ \E vaddr \in CmdAddrs : \E r \in PagingRandsFor(sim, CmdVpn(vaddr)) :
           CmdPagingAccess(vaddr, r)
    \/ CmdPagingFlush

SpecCmdPaging == Init /\ [][NextCmdPaging]_vars

(***************************************************************************)
(* Address translation actions: extract_page_indices and translate_address  *)
(* called with an address, and with what the pagemap file does and holds.   *)
(***************************************************************************)
\* Addresses for the translation: every combination of these pieces.
VAddrHigh == {0, 65535, 32768}                      \* 0x0000, 0xFFFF, 0x8000
VAddrMid == {0, 8388370, 16777215, 5592405}         \* 0x7FFF12, 0xFFFFFF, 0x555555
VAddrLow == {0, 3430008, 16777215, 11184810}        \* 0x345678, 0xFFFFFF, 0xAAAAAA
VAddrs == {U64(hi, mid, lo) : hi \in VAddrHigh, mid \in VAddrMid, lo \in VAddrLow}

\* Addresses for the decomposition alone: the above and every single bit.
OneBit(k) == [i \in Bits |-> IF i = k THEN 1 ELSE 0]
ExtractAddrs == VAddrs \cup {OneBit(k) : k \in Bits}

\* Pagemap entries: every combination of the present and swapped bits with
\* two payloads, one of them with all 55 payload bits and bit 61 set.
PagemapEntries ==
    {[i \in Bits |-> IF i = 63 THEN p
                     ELSE IF i = 62 THEN w
                     ELSE IF i = 61 THEN full
                     ELSE IF i >= 55 THEN 0
                     ELSE IF full = 1 THEN 1
                     ELSE U64(0, 18, 3430008)[i]] :
        p \in {0, 1}, w \in {0, 1}, full \in {0, 1}}

Pids == {4242}

othervars_addr == <<tlb, tlb_op, tlb_hist, sim, paging_op, paging_hist>>

\* A command declares its PageWalkResult, makes its call and prints; the next
\* call is made by the next command, once this one has returned.
ExtractPageIndices(vaddr) ==
    /\ walk_op = NoOp
    /\ walk_op' = [name |-> "extract", vaddr |-> vaddr, idx |-> extract_page_indices(vaddr)]
    /\ UNCHANGED <<walk, othervars_addr>>

TranslateAddress(pid, vaddr, io, pagemap_entry) ==
    LET w == translate_address(pid, vaddr, io, pagemap_entry) IN
    /\ walk_op = NoOp
    /\ walk' = w.result
    /\ walk_op' = [name |-> "translate", pid |-> pid, vaddr |-> vaddr, io |-> io,
                   pagemap_entry |-> pagemap_entry, ret |-> w.ret, reads |-> w.reads]
    /\ UNCHANGED othervars_addr

\* The command returns: its PageWalkResult goes out of scope.
TranslateReturns ==
    /\ walk_op # NoOp
    /\ walk' = NULL
    /\ walk_op' = NoOp
    /\ UNCHANGED othervars_addr

NextAddr ==
    \/ \E vaddr \in ExtractAddrs : ExtractPageIndices(vaddr)
    \/ \E pid \in Pids, vaddr \in VAddrs, io \in IoOutcomes, e \in PagemapEntries :
           TranslateAddress(pid, vaddr, io, e)
    \/ TranslateReturns

SpecAddr == Init /\ [][NextAddr]_vars

\* construct_physical_address called on its own: frame numbers below and
\* above 2^52, and offsets within and beyond twelve bits, negative ones too.
ConstructPfns ==
    {Zero64, U64(0, 0, 1), U64(0, 18, 3430008),
     U64(15, 16777215, 16777215),            \* 2^52 - 1
     U64(127, 16777215, 16777215),           \* 2^55 - 1
     U64(65535, 16777215, 16777215)}         \* 2^64 - 1
      \cup {OneBit(k) : k \in {11, 12, 39, 40, 51, 52, 63}}
ConstructOffsets ==
    {0, 1, 4095, 4096, 4097, 4660, 74565, 1048575, INT_MAX,
     -1, -4095, -4096, (-INT_MAX) - 1}

ConstructPhysicalAddress(pfn, offset) ==
    /\ walk_op' = [name |-> "construct", pfn |-> pfn, offset |-> offset,
                   ret |-> construct_physical_address(pfn, offset)]
    /\ UNCHANGED <<walk, othervars_addr>>

NextConstruct ==
    \E pfn \in ConstructPfns, offset \in ConstructOffsets :
        ConstructPhysicalAddress(pfn, offset)

SpecConstruct == Init /\ [][NextConstruct]_vars

(***************************************************************************)
(* Properties of the TLB simulator.                                         *)
(***************************************************************************)

\* The transition is a call, made on an existing TLB, of one of the named entry points.
TlbCall(names) ==
    /\ tlb # NULL
    /\ tlb' # NULL
    /\ tlb_hist'.calls = tlb_hist.calls + 1
    /\ tlb_op'.name \in names

\* The call inserts a key that is not resident into a TLB without an invalid slot.
TlbEvictingInsert ==
    /\ TlbCall({"insert", "access"})
    /\ tlb_op'.vpn \notin Resident(tlb)
    /\ ValidCount(tlb) = tlb.size

\* C1: in every reachable state of a TLB created by tlb_init(size, policy), under
\* every policy and after any calls of lookup, insert, invalidate, access, flush and
\* reset_stats, the entries with valid = 1 are entries of the array and there are
\* at most size of them.
C1_ValidWithinCapacity ==
    tlb # NULL =>
        /\ DOMAIN tlb.entries = 0..(tlb.size - 1)
        /\ ValidCount(tlb) <= tlb.size

\* A full TLB right after an insert that evicted an entry.
C1_Witness ==
    /\ tlb # NULL
    /\ tlb.size = MaxTlbSize
    /\ ValidCount(tlb) = tlb.size
    /\ tlb_op.name = "insert"
    /\ tlb_op.evicted # {}

\* C2: in an LRU TLB on which tlb_reset_stats was not called, an insert (direct
\* or by tlb_access) of a key that is not resident into a TLB without an invalid
\* slot evicts exactly the resident key whose latest insert or lookup hit is the
\* oldest, and keeps every other resident key.
C2_LruEvictsLeastRecent ==
    [][(/\ TlbEvictingInsert
        /\ tlb.replacement_policy = TLB_POLICY_LRU
        /\ ~tlb_hist.reset)
       => Resident(tlb') =
            (Resident(tlb) \ {Head(tlb_hist.touched)}) \cup {tlb_op'.vpn}]_vars

\* The scenario of the claim: capacity 2, insert A = 0, insert B = 1, lookup A
\* (hit), insert C = 2: B is evicted, A and C are resident.
C2_Witness ==
    /\ tlb # NULL
    /\ tlb.replacement_policy = TLB_POLICY_LRU
    /\ tlb.size = 2
    /\ tlb_hist.calls = 4
    /\ ~tlb_hist.reset
    /\ tlb.hits = 1
    /\ tlb_op.name = "insert"
    /\ tlb_op.vpn = 2
    /\ tlb_op.evicted = {1}
    /\ tlb.entries[0].vpn = 0
    /\ Resident(tlb) = {0, 2}

\* C3: in a FIFO TLB a lookup hit leaves every entry's last_access as it was, and
\* an insert of a key that is not resident into a TLB without an invalid slot
\* evicts the resident key that became resident first.
C3_FifoHitKeepsStampEvictsFirstIn ==
    [][(/\ tlb # NULL
        /\ tlb.replacement_policy = TLB_POLICY_FIFO
        /\ ~tlb_hist.reset)
       => /\ (TlbCall({"lookup"}) /\ tlb_op'.ret = 1)
               => \A i \in DOMAIN tlb.entries :
                      tlb'.entries[i].last_access = tlb.entries[i].last_access
          /\ TlbEvictingInsert
               => Resident(tlb') =
                    (Resident(tlb) \ {Head(tlb_hist.entered)}) \cup {tlb_op'.vpn}]_vars

\* C4: tlb_access(vpn, pfn, dirty) on an existing TLB returns 1 exactly when vpn
\* was resident before the call; on a miss some valid entry holds (vpn, pfn, dirty)
\* afterwards; in both cases vpn is resident afterwards; a hit adds one to hits
\* and leaves misses, a miss adds one to misses and leaves hits.
C4_AccessHitOrFill ==
    [][TlbCall({"access"}) =>
        LET vpn == tlb_op'.vpn
            was == vpn \in Resident(tlb)
        IN  /\ tlb_op'.ret = (IF was THEN 1 ELSE 0)
            /\ vpn \in Resident(tlb')
            /\ was => tlb'.hits = tlb.hits + 1 /\ tlb'.misses = tlb.misses
            /\ ~was => /\ tlb'.misses = tlb.misses + 1
                       /\ tlb'.hits = tlb.hits
                       /\ \E i \in DOMAIN tlb'.entries :
                            /\ tlb'.entries[i].valid = 1
                            /\ tlb'.entries[i].vpn = vpn
                            /\ tlb'.entries[i].pfn = tlb_op'.pfn
                            /\ tlb'.entries[i].dirty = tlb_op'.dirty]_vars

\* A tlb_access that hit, on a TLB that an earlier tlb_access had missed on.
C4_Witness ==
    /\ tlb # NULL
    /\ tlb_op.name = "access"
    /\ tlb_op.ret = 1
    /\ tlb.hits = 1
    /\ tlb.misses = 1
    /\ tlb_op.vpn \in Resident(tlb)

(***************************************************************************)
(* Properties of the paging simulator.                                      *)
(***************************************************************************)

\* C5: with frame_count = 1, under each policy, after N accesses to N pairwise
\* distinct non-negative pages since paging_init or paging_flush, page_faults = N
\* and page_hits = 0.
C5_DistinctPagesAllFault ==
    (sim # NULL /\ sim.num_frames = 1 /\ paging_hist.distinct)
        => /\ sim.page_faults = Cardinality(paging_hist.pages)
           /\ sim.page_hits = 0

\* Three distinct pages accessed on a one-frame table after a flush.
C5_Witness ==
    /\ sim # NULL
    /\ sim.num_frames = 1
    /\ paging_hist.distinct
    /\ Cardinality(paging_hist.pages) = 3
    /\ paging_hist.calls = 5
    /\ paging_op.name = "access"
    /\ sim.page_faults = 3

\* C6: under CLOCK an access that has to evict inspects at most 2 * num_frames
\* frames and installs the page in a frame whose index is in 0..num_frames-1;
\* nothing is written outside the frame array.
C6_ClockTerminatesInRange ==
    (sim # NULL /\ sim.policy = PAGING_POLICY_CLOCK)
        => /\ DOMAIN sim.frames = 0..(sim.num_frames - 1)
           /\ (paging_op.name = "access" /\ paging_op.evict)
                => /\ paging_op.inspected <= 2 * sim.num_frames
                   /\ paging_op.frame \in 0..(sim.num_frames - 1)
                   /\ sim.frames[paging_op.frame].vpn = paging_op.vpn

\* A CLOCK eviction that swept over every frame, clearing its reference bit,
\* before it came back to its first frame.
C6_Witness ==
    /\ sim # NULL
    /\ sim.policy = PAGING_POLICY_CLOCK
    /\ sim.num_frames = MaxFrames
    /\ paging_op.name = "access"
    /\ paging_op.evict
    /\ paging_op.inspected = sim.num_frames + 1

(***************************************************************************)
(* Properties of the address translation.                                   *)
(***************************************************************************)
Mask48 == [i \in Bits |-> IF i < 48 THEN 1 ELSE 0]

\* (l1 << 39) | (l2 << 30) | (l3 << 21) | (l4 << 12) | offset on 64-bit values.
Reassemble(l1, l2, l3, l4, offset) ==
    BitOr(Shl(U64FromInt(l1), 39),
      BitOr(Shl(U64FromInt(l2), 30),
        BitOr(Shl(U64FromInt(l3), 21),
          BitOr(Shl(U64FromInt(l4), 12), U64FromInt(offset)))))

\* The address 0x7FFF12345678.
Addr7FFF12345678 == U64(0, 8388370, 3430008)

\* C7: the five fields extract_page_indices produces reassemble to the address
\* mod 2^48; each index is in 0..511 and the offset in 0..4095.
C7_DecompositionRoundTrip ==
    walk_op.name = "extract"
        => /\ walk_op.idx.pml4_idx \in 0..511
           /\ walk_op.idx.pdpt_idx \in 0..511
           /\ walk_op.idx.pd_idx \in 0..511
           /\ walk_op.idx.pt_idx \in 0..511
           /\ walk_op.idx.offset \in 0..4095
           /\ Reassemble(walk_op.idx.pml4_idx, walk_op.idx.pdpt_idx, walk_op.idx.pd_idx,
                         walk_op.idx.pt_idx, walk_op.idx.offset)
                = BitAnd(walk_op.vaddr, Mask48)

\* The decomposition of 0xFFFFFFFFFFFFFFFF: bits above bit 47 are set and
\* dropped, every field has its largest value.
C7_Witness ==
    /\ walk_op.name = "extract"
    /\ walk_op.vaddr = [i \in Bits |-> 1]
    /\ walk_op.idx.pml4_idx = 511
    /\ walk_op.idx.pt_idx = 511
    /\ walk_op.idx.offset = 4095

\* C8 as stated: 0x7FFF12345678 decomposes to level-1 index 0xFF, level-2 index
\* 0x109 and offset 0x678.
C8_Level2Is0x109 ==
    (walk_op.name = "extract" /\ walk_op.vaddr = Addr7FFF12345678)
        => /\ walk_op.idx.pml4_idx = 255
           /\ walk_op.idx.pdpt_idx = 265
           /\ walk_op.idx.offset = 1656

\* C8, amended: 0x7FFF12345678 decomposes to level-1 index 0xFF, level-2 index
\* 0x1FC and offset 0x678.
C8_Level2Is0x1FC ==
    (walk_op.name = "extract" /\ walk_op.vaddr = Addr7FFF12345678)
        => /\ walk_op.idx.pml4_idx = 255
           /\ walk_op.idx.pdpt_idx = 508
           /\ walk_op.idx.offset = 1656

C8_Witness ==
    /\ walk_op.name = "extract"
    /\ walk_op.vaddr = Addr7FFF12345678
    /\ walk_op.idx.pdpt_idx = 508

\* C9: when the reader fails, the call returns -1 with success = 0, physical
\* address 0 and the pagemap reason; the entry in the result is untouched,
\* whatever flags the file holds; the result carries the address and its five
\* fields.
C9_ReaderFailure ==
    (walk_op.name = "translate" /\ walk_op.io # "ok")
        => /\ walk_op.ret = -1
           /\ walk.success = 0
           /\ walk.physical_addr = Zero64
           /\ walk.error_msg = [text |-> "Failed to read pagemap for PID %d (need root?)",
                                arg |-> walk_op.pid]
           /\ walk.pte.present = 0
           /\ walk.pte.swapped = 0
           /\ walk.pte.pfn = Zero64
           /\ walk.pte.swap_offset = Zero64
           /\ walk.virtual_addr = walk_op.vaddr
           /\ walk.pml4_index \in 0..511
           /\ walk.pdpt_index \in 0..511
           /\ walk.pd_index \in 0..511
           /\ walk.pt_index \in 0..511
           /\ walk.page_offset \in 0..4095
           /\ Reassemble(walk.pml4_index, walk.pdpt_index, walk.pd_index,
                         walk.pt_index, walk.page_offset)
                = BitAnd(walk_op.vaddr, Mask48)

\* A failed read of a page whose entry in the file has the present and the
\* swapped bit set.
C9_Witness ==
    /\ walk_op.name = "translate"
    /\ walk_op.io = "read_fails"
    /\ walk_op.pagemap_entry[63] = 1
    /\ walk_op.pagemap_entry[62] = 1
    /\ walk_op.vaddr = Addr7FFF12345678
    /\ walk_op.ret = -1
    /\ walk.pdpt_index = 508

\* The result is the failure with the swapped reason and the swap location,
\* the low 55 bits of the entry.
SwappedFailure ==
    /\ walk_op.ret = -1
    /\ walk.success = 0
    /\ walk.physical_addr = Zero64
    /\ walk.error_msg = [text |-> "Page is swapped out (swap offset: 0x%lx)",
                         arg |-> [i \in Bits |-> IF i < 55 THEN walk_op.pagemap_entry[i]
                                                 ELSE 0]]

\* C10 as stated: whenever the reader succeeds and the entry has the swapped
\* bit, the result is the swapped failure, whatever its other bits are.
C10_SwappedDecidedFirst ==
    (walk_op.name = "translate" /\ walk_op.io = "ok" /\ walk_op.pagemap_entry[62] = 1)
        => SwappedFailure

\* C10, amended: when the reader succeeds and the entry has the swapped bit and
\* not the present bit, the result is the swapped failure; an entry with both
\* bits translates successfully (presence is decided before swap).
C10_SwappedWhenNotPresent ==
    (walk_op.name = "translate" /\ walk_op.io = "ok" /\ walk_op.pagemap_entry[62] = 1)
        => IF walk_op.pagemap_entry[63] = 0
           THEN SwappedFailure
           ELSE /\ walk_op.ret = 0
                /\ walk.success = 1
                /\ walk.error_msg = NoMsg

\* A swapped, not present entry with bit 61 and all its payload bits set.
C10_Witness ==
    /\ walk_op.name = "translate"
    /\ walk_op.io = "ok"
    /\ walk_op.pagemap_entry[62] = 1
    /\ walk_op.pagemap_entry[63] = 0
    /\ walk_op.pagemap_entry[61] = 1
    /\ walk.success = 0
    /\ walk.error_msg.arg = PM_PFN_MASK

\* The frame number of a present entry, bits 54..0, placed at bits 63..12 and
\* the low 12 bits of the address below it.
FrameAndOffset(pagemap_entry, vaddr) ==
    [i \in Bits |-> IF i < 12 THEN vaddr[i] ELSE pagemap_entry[i - 12]]

\* C11: translate_address returns 0 with success = 1 exactly when the reader
\* succeeds and the entry is present, and then physical_addr is
\* (pfn << 12) | (vaddr & 0xFFF); a readable entry neither present nor swapped
\* fails with the not-present reason; every failure has physical_addr 0 and
\* return value -1.
C11_TranslateOutcome ==
    walk_op.name = "translate"
        => /\ walk_op.ret \in {0, -1}
           /\ walk.success \in {0, 1}
           /\ (walk_op.ret = 0) <=> (walk.success = 1)
           /\ (walk.success = 1)
                <=> (walk_op.io = "ok" /\ walk_op.pagemap_entry[63] = 1)
           /\ (walk.success = 1)
                => walk.physical_addr = FrameAndOffset(walk_op.pagemap_entry, walk_op.vaddr)
           /\ (walk.success = 0) => walk.physical_addr = Zero64
           /\ (/\ walk_op.io = "ok"
               /\ walk_op.pagemap_entry[63] = 0
               /\ walk_op.pagemap_entry[62] = 0)
                => walk.error_msg =
                     [text |-> "Page not present (not yet accessed or demand paging)"]

\* A successful translation of 0x7FFF12345678 through a present entry with a
\* non-zero frame number.
C11_Witness ==
    /\ walk_op.name = "translate"
    /\ walk_op.io = "ok"
    /\ walk_op.vaddr = Addr7FFF12345678
    /\ walk_op.pagemap_entry[63] = 1
    /\ walk_op.pagemap_entry[62] = 0
    /\ walk_op.pagemap_entry[61] = 0
    /\ walk.success = 1
    /\ walk.physical_addr # Zero64
    /\ walk.pte.pfn = U64(0, 18, 3430008)

C14_ClampedBelowToOne ==
    paging_op.name = "init"
        => /\ sim # NULL
           /\ sim.initialized = 1
           /\ sim.num_frames = IF paging_op.num_frames < 1 THEN 1
                               ELSE IF paging_op.num_frames > 64 THEN 64
                               ELSE paging_op.num_frames

\* C14, amended: paging_init never fails and the frame count is in 1..64: a
\* request below 1 gives the default 4, above 64 gives 64, inside is kept.
C14_BelowOneGivesDefault ==
    paging_op.name = "init"
        => /\ sim # NULL
           /\ sim.initialized = 1
           /\ sim.num_frames \in 1..64
           /\ DOMAIN sim.frames = 0..(sim.num_frames - 1)
           /\ sim.num_frames = IF paging_op.num_frames < 1 THEN 4
                               ELSE IF paging_op.num_frames > 64 THEN 64
                               ELSE paging_op.num_frames

\* paging_init asked for 0 frames.
C14_Witness ==
    /\ paging_op.name = "init"
    /\ paging_op.num_frames = 0
    /\ sim # NULL
    /\ sim.num_frames = 4

(***************************************************************************)
(* Properties of the TLB statistics.                                        *)
(***************************************************************************)

\* C15: tlb_get_hit_rate returns 0 without dividing when hits + misses = 0, and
\* otherwise 100 * hits / (hits + misses), a value in [0,100].
C15_HitRate ==
    tlb_op.name = "hit_rate"
        => IF tlb = NULL
           THEN tlb_op.rate.num = 0 /\ ~tlb_op.rate.divided
           ELSE IF tlb.hits + tlb.misses = 0
           THEN tlb_op.rate.num = 0 /\ tlb_op.rate.den # 0 /\ ~tlb_op.rate.divided
           ELSE /\ tlb_op.rate.den > 0
                /\ tlb_op.rate.num * (tlb.hits + tlb.misses)
                     = 100 * tlb.hits * tlb_op.rate.den
                /\ tlb_op.rate.num >= 0
                /\ tlb_op.rate.num <= 100 * tlb_op.rate.den

\* The rate of one hit in three accesses.
C15_Witness ==
    /\ tlb_op.name = "hit_rate"
    /\ tlb # NULL
    /\ tlb.hits = 1
    /\ tlb.misses = 2
    /\ tlb_op.rate.divided
    /\ tlb_op.rate.num * 3 = 100 * tlb_op.rate.den

(***************************************************************************)
(* Properties of flush and reset.                                           *)
(***************************************************************************)

\* C16: in the state a paging_flush leaves, every frame is empty (vpn = -1) and
\* page_hits, page_faults and access_counter are 0: both effects belong to the
\* one operation.
C16_PagingFlush ==
    paging_op.name = "flush"
        => /\ sim # NULL
           /\ \A i \in 0..(sim.num_frames - 1) : sim.frames[i].vpn = -1
           /\ sim.page_hits = 0
           /\ sim.page_faults = 0
           /\ sim.access_counter = 0

\* A flush of a two-frame table that had both frames loaded and one hit: the
\* stamps of the flushed frames still tell.
C16_Witness ==
    /\ paging_op.name = "flush"
    /\ sim # NULL
    /\ sim.num_frames = 2
    /\ sim.frames[0].last_access = 2
    /\ sim.frames[1].loaded_at = 1
    /\ sim.frames[0].vpn = -1
    /\ sim.page_faults = 0

\* C17: tlb_flush leaves every slot invalid with last_access 0 and keeps hits,
\* misses and access_counter; while no slot is valid every lookup misses, and
\* only tlb_insert or tlb_access makes a slot valid again.
C17_TlbFlush ==
    [][/\ TlbCall({"flush"})
          => /\ \A i \in DOMAIN tlb'.entries :
                  /\ tlb'.entries[i].valid = 0
                  /\ tlb'.entries[i].last_access = 0
             /\ DOMAIN tlb'.entries = DOMAIN tlb.entries
             /\ tlb'.hits = tlb.hits
             /\ tlb'.misses = tlb.misses
             /\ tlb'.access_counter = tlb.access_counter
       /\ (TlbCall({"lookup"}) /\ ValidCount(tlb) = 0)
          => /\ tlb_op'.ret = 0
             /\ tlb'.misses = tlb.misses + 1
       /\ (TlbCall({"lookup", "invalidate", "flush", "reset_stats"}) /\ ValidCount(tlb) = 0)
          => ValidCount(tlb') = 0]_vars

\* A lookup of key 0 that missed after the flush of a TLB that held key 0 (the
\* slot keeps the dirty flag of the flushed entry) and had counted one hit.
C17_Witness ==
    /\ tlb # NULL
    /\ tlb_op.name = "lookup"
    /\ tlb_op.vpn = 0
    /\ tlb_op.ret = 0
    /\ tlb.entries[0].valid = 0
    /\ tlb.entries[0].dirty = 1
    /\ tlb.entries[0].pfn = 0
    /\ tlb.hits = 1
    /\ tlb.misses = 1
    /\ tlb.access_counter = 2

\* C18: tlb_reset_stats sets hits, misses and access_counter to 0 and leaves
\* every slot as it was; a key resident before the reset is resident after it,
\* and a lookup of a resident key after a reset hits and returns its pfn.
C18_ResetStatsKeepsSlots ==
    [][/\ TlbCall({"reset_stats"})
          => /\ tlb'.hits = 0
             /\ tlb'.misses = 0
             /\ tlb'.access_counter = 0
             /\ tlb'.entries = tlb.entries
             /\ tlb'.size = tlb.size
             /\ Resident(tlb') = Resident(tlb)
       /\ (TlbCall({"lookup"}) /\ tlb_hist.reset /\ tlb_op'.vpn \in Resident(tlb))
          => /\ tlb_op'.ret = 1
             /\ tlb_op'.pfn = MappingOf(tlb_op'.vpn).pfn
             /\ tlb'.hits = tlb.hits + 1]_vars

\* The second of two resident keys hit by the first lookup after a reset.
C18_Witness ==
    /\ tlb # NULL
    /\ tlb_hist.reset
    /\ tlb_op.name = "lookup"
    /\ tlb_op.ret = 1
    /\ tlb_op.vpn = 1
    /\ Resident(tlb) = {0, 1}
    /\ tlb.hits = 1
    /\ tlb.misses = 0
    /\ tlb.access_counter = 1

\* C19: a call of lookup, insert, invalidate, access or flush never decreases
\* hits, misses or access_counter; a call after which one of them is smaller is
\* a tlb_reset_stats, which leaves all three 0.
C19_CountersMonotone ==
    [][/\ TlbCall({"lookup", "insert", "invalidate", "access", "flush"})
          => /\ tlb'.hits >= tlb.hits
             /\ tlb'.misses >= tlb.misses
             /\ tlb'.access_counter >= tlb.access_counter
       /\ (/\ TlbCall({"lookup", "insert", "invalidate", "access", "flush", "reset_stats"})
           /\ \/ tlb'.hits < tlb.hits
              \/ tlb'.misses < tlb.misses
              \/ tlb'.access_counter < tlb.access_counter)
          => /\ tlb_op'.name = "reset_stats"
             /\ tlb'.hits = 0
             /\ tlb'.misses = 0
             /\ tlb'.access_counter = 0]_vars

\* A flush, after an insert and a lookup of either kind, that kept one hit, one
\* miss and an access counter of 2.
C19_Witness ==
    /\ tlb # NULL
    /\ tlb_op.name = "flush"
    /\ tlb_hist.calls = 4
    /\ ~tlb_hist.reset
    /\ tlb.hits = 1
    /\ tlb.misses = 1
    /\ tlb.access_counter = 2
    /\ ValidCount(tlb) = 0

\* C20: tlb_invalidate(vpn) returns 1 exactly when a valid entry with vpn
\* existed; it then changes only the valid flag of that entry, and a lookup of
\* vpn made next misses; when it returns 0 it changes nothing.
C20_InvalidateOnlyValidFlag ==
    [][/\ TlbCall({"invalidate"})
          => LET vpn == tlb_op'.vpn
                 was == \E i \in DOMAIN tlb.entries :
                           tlb.entries[i].valid = 1 /\ tlb.entries[i].vpn = vpn
             IN /\ tlb_op'.ret = (IF was THEN 1 ELSE 0)
                /\ ~was => tlb' = tlb
                /\ was => /\ \E i \in DOMAIN tlb.entries :
                                /\ tlb.entries[i].valid = 1
                                /\ tlb.entries[i].vpn = vpn
                                /\ tlb' = [tlb EXCEPT !.entries[i].valid = 0]
                          /\ vpn \notin Resident(tlb')
       /\ (/\ TlbCall({"lookup"})
           /\ tlb_op.name = "invalidate"
           /\ tlb_op'.vpn = tlb_op.vpn)
          => /\ tlb_op'.ret = 0
             /\ tlb'.misses = tlb.misses + 1]_vars

\* A lookup of key 1 that missed on a slot still holding key 1 and its pfn,
\* invalid since the tlb_invalidate(1) before.
C20_Witness ==
    /\ tlb # NULL
    /\ tlb_op.name = "lookup"
    /\ tlb_op.vpn = 1
    /\ tlb_op.ret = 0
    /\ \E i \in DOMAIN tlb.entries :
          /\ tlb.entries[i].valid = 0
          /\ tlb.entries[i].vpn = 1
          /\ tlb.entries[i].pfn = MappingOf(1).pfn
          /\ tlb.entries[i].dirty = 1
    /\ Resident(tlb) = {0}

(***************************************************************************)
(* Properties of lookup and insert.                                         *)
(***************************************************************************)

\* The call is one of those whose argument is a key.
TlbKeyCall == TlbCall({"lookup", "insert", "invalidate", "access"})

\* C21: under a policy other than FIFO a lookup that hits returns the pfn of
\* the valid entry of the key, sets its accessed flag, stamps it with the
\* access counter and then advances the counter, adds one to hits and changes
\* nothing else; that pfn is the one of the latest insert of the key, since a
\* lookup right after insert(k, v) hits with v and no call changes the pfn of
\* a valid entry of another key than its own.
C21_LookupHit ==
    [][/\ (/\ TlbCall({"lookup"})
           /\ tlb.replacement_policy # TLB_POLICY_FIFO
           /\ tlb_op'.ret = 1)
          => \E i \in DOMAIN tlb.entries :
                /\ tlb.entries[i].valid = 1
                /\ tlb.entries[i].vpn = tlb_op'.vpn
                /\ tlb_op'.pfn = tlb.entries[i].pfn
                /\ tlb' = [tlb EXCEPT !.entries[i].accessed = 1,
                                      !.entries[i].last_access = tlb.access_counter,
                                      !.access_counter = tlb.access_counter + 1,
                                      !.hits = tlb.hits + 1]
       /\ (/\ TlbCall({"lookup"})
           /\ tlb.replacement_policy # TLB_POLICY_FIFO
           /\ tlb_op.name = "insert"
           /\ tlb_op'.vpn = tlb_op.vpn)
          => /\ tlb_op'.ret = 1
             /\ tlb_op'.pfn = tlb_op.pfn
       /\ (TlbKeyCall /\ tlb.replacement_policy # TLB_POLICY_FIFO)
          => \A i \in DOMAIN tlb'.entries :
                (tlb'.entries[i].valid = 1 /\ tlb'.entries[i].vpn # tlb_op'.vpn)
                   => /\ tlb.entries[i].valid = 1
                      /\ tlb.entries[i].vpn = tlb'.entries[i].vpn
                      /\ tlb.entries[i].pfn = tlb'.entries[i].pfn]_vars

\* A lookup of key 0 that returned 17 under LRU, after two inserts of key 0 into
\* a TLB of two slots, the later one with 17.
C21_Witness ==
    /\ tlb # NULL
    /\ tlb.replacement_policy = TLB_POLICY_LRU
    /\ tlb_op.name = "lookup"
    /\ tlb_op.vpn = 0
    /\ tlb_op.ret = 1
    /\ tlb_op.pfn = 17
    /\ tlb.hits = 1
    /\ tlb.misses = 0
    /\ tlb.access_counter = 3
    /\ tlb_hist.calls = 3
    /\ tlb.size = 2
    /\ ValidCount(tlb) = 1
    /\ tlb.entries[0].last_access = 2

\* C22: a lookup that misses adds one to misses and changes nothing else: the
\* slots, hits and the access counter are as before; it misses exactly when no
\* valid entry holds the key.
C22_LookupMiss ==
    [][TlbCall({"lookup"})
          => /\ (tlb_op'.ret = 0) <=> (tlb_op'.vpn \notin Resident(tlb))
             /\ (tlb_op'.ret = 0)
                  => /\ tlb' = [tlb EXCEPT !.misses = tlb.misses + 1]
                     /\ tlb'.entries = tlb.entries
                     /\ tlb'.hits = tlb.hits
                     /\ tlb'.access_counter = tlb.access_counter
                     /\ tlb_op'.pfn = Unset]_vars

\* The second miss on a TLB that holds another key.
C22_Witness ==
    /\ tlb # NULL
    /\ tlb_op.name = "lookup"
    /\ tlb_op.ret = 0
    /\ tlb_op.vpn = 2
    /\ Resident(tlb) = {1}
    /\ tlb.misses = 2
    /\ tlb.hits = 0
    /\ tlb.access_counter = 1

\* C23: an insert of a key that has a valid entry overwrites the pfn and the
\* dirty bit of that entry and refreshes its stamp in place: the resident keys
\* and the slot of every entry are as before, nothing is evicted even from a
\* full TLB, and hits and misses are unchanged.
C23_InsertExistingKey ==
    [][(TlbCall({"insert"}) /\ tlb_op'.vpn \in Resident(tlb))
          => /\ \E i \in DOMAIN tlb.entries :
                  /\ tlb.entries[i].valid = 1
                  /\ tlb.entries[i].vpn = tlb_op'.vpn
                  /\ tlb'.entries[i].pfn = tlb_op'.pfn
                  /\ tlb'.entries[i].dirty = tlb_op'.dirty
                  /\ tlb'.entries[i].last_access = tlb.access_counter
                  /\ tlb'.entries[i].valid = 1
                  /\ tlb'.entries[i].vpn = tlb_op'.vpn
                  /\ \A j \in DOMAIN tlb.entries \ {i} : tlb'.entries[j] = tlb.entries[j]
             /\ DOMAIN tlb'.entries = DOMAIN tlb.entries
             /\ Resident(tlb') = Resident(tlb)
             /\ tlb_op'.evicted = {}
             /\ tlb'.hits = tlb.hits
             /\ tlb'.misses = tlb.misses]_vars

\* Key 0 inserted again, with pfn 17 and a clean dirty bit, into a full TLB of
\* two slots: it stays in slot 0, key 1 stays in slot 1.
C23_Witness ==
    /\ tlb # NULL
    /\ tlb.size = 2
    /\ tlb_op.name = "insert"
    /\ tlb_op.vpn = 0
    /\ tlb_op.pfn = 17
    /\ tlb_op.dirty = 0
    /\ tlb_hist.calls = 3
    /\ tlb.entries[0] = [vpn |-> 0, pfn |-> 17, valid |-> 1, dirty |-> 0,
                         accessed |-> 1, last_access |-> 2]
    /\ tlb.entries[1].valid = 1
    /\ tlb.entries[1].vpn = 1
    /\ tlb.entries[1].last_access = 1

\* The lowest index of an invalid slot of t, which has one.
LowestInvalid(t) ==
    CHOOSE i \in DOMAIN t.entries :
        /\ t.entries[i].valid = 0
        /\ \A j \in DOMAIN t.entries : j < i => t.entries[j].valid = 1

\* C24: an insert of a key without a valid entry into a TLB with an invalid
\* slot stores it in the lowest-index invalid slot, advances the access counter
\* by one and leaves every valid entry as it was; an insert evicts only when
\* no slot is invalid.
C24_InsertIntoInvalidSlot ==
    [][/\ (/\ TlbCall({"insert"})
           /\ tlb_op'.vpn \notin Resident(tlb)
           /\ ValidCount(tlb) < tlb.size)
          => /\ tlb' = [tlb EXCEPT
                          !.entries[LowestInvalid(tlb)] =
                              [vpn |-> tlb_op'.vpn, pfn |-> tlb_op'.pfn, valid |-> 1,
                               dirty |-> tlb_op'.dirty, accessed |-> 1,
                               last_access |-> tlb.access_counter],
                          !.access_counter = tlb.access_counter + 1]
             /\ Resident(tlb') = Resident(tlb) \cup {tlb_op'.vpn}
             /\ tlb_op'.evicted = {}
       /\ (TlbCall({"insert", "access"}) /\ tlb_op'.evicted # {})
          => ValidCount(tlb) = tlb.size]_vars

\* Key 2 inserted into slot 0, which tlb_invalidate had freed, of a TLB whose
\* slot 1 holds key 1 with the older stamp.
C24_Witness ==
    /\ tlb # NULL
    /\ tlb.size = 2
    /\ tlb_op.name = "insert"
    /\ tlb_op.vpn = 2
    /\ tlb_op.evicted = {}
    /\ tlb_hist.calls = 4
    /\ tlb.entries[0].valid = 1
    /\ tlb.entries[0].vpn = 2
    /\ tlb.entries[0].last_access = 2
    /\ tlb.entries[1].valid = 1
    /\ tlb.entries[1].vpn = 1
    /\ tlb.entries[1].last_access = 1
    /\ tlb.access_counter = 3

\* The call inserted its key by evicting another one.
EvictedBy(op) == op.name \in {"insert", "access"} /\ op.evicted # {}

\* C25: a TLB created with the CLOCK policy evicts by second chance with a
\* rotating hand that moves past each victim, so of two evictions in succession
\* from a TLB of more than one slot the second does not select the slot the
\* first one filled.
C25_ClockHandMovesOn ==
    [][(/\ TlbCall({"insert", "access"})
        /\ tlb.replacement_policy = TLB_POLICY_CLOCK
        /\ tlb.size >= 2
        /\ EvictedBy(tlb_op)
        /\ EvictedBy(tlb_op'))
          => \A i \in DOMAIN tlb.entries :
                (tlb.entries[i].valid = 1 /\ tlb.entries[i].vpn = tlb_op.vpn)
                   => /\ tlb'.entries[i].valid = 1
                      /\ tlb'.entries[i].vpn = tlb_op.vpn]_vars


(***************************************************************************)
(* Frame-table accesses, step by step.                                      *)
(***************************************************************************)
\* A step that is a call of one of the named frame-table operations.
PagingCall(names) ==
    /\ sim # NULL
    /\ sim' # NULL
    /\ paging_hist'.calls = paging_hist.calls + 1
    /\ paging_op'.name \in names

\* The frames whose vpn field is the empty marker.
EmptyFrames(sm) == {i \in DOMAIN sm.frames : sm.frames[i].vpn = -1}

\* C26: an access that hits adds one to the hit count, stamps the frame that
\* holds the page with the access counter's value at the call as its
\* last-access, sets its reference bit, and leaves that frame's loaded-at
\* stamp, every other frame, the fault count and the clock hand as they were.
C26_AccessHit ==
    [][(PagingCall({"access"}) /\ paging_op'.ret = 1)
         => \E i \in DOMAIN sim.frames :
              /\ sim.frames[i].vpn = paging_op'.vpn
              /\ paging_op'.frame = i
              /\ sim'.page_hits = sim.page_hits + 1
              /\ sim'.frames[i].last_access = sim.access_counter
              /\ sim'.frames[i].reference_bit = 1
              /\ sim'.frames[i].loaded_at = sim.frames[i].loaded_at
              /\ sim'.frames[i].vpn = sim.frames[i].vpn
              /\ \A j \in DOMAIN sim.frames \ {i} : sim'.frames[j] = sim.frames[j]
              /\ DOMAIN sim'.frames = DOMAIN sim.frames
              /\ sim'.page_faults = sim.page_faults
              /\ sim'.clock_hand = sim.clock_hand]_vars

\* A hit on the second of two frames, under CLOCK with the hand moved, of a
\* page loaded earlier than the call.
C26_Witness ==
    /\ sim # NULL
    /\ paging_op.name = "access"
    /\ paging_op.ret = 1
    /\ paging_op.frame = 1
    /\ paging_op.vpn >= 0
    /\ sim.policy = PAGING_POLICY_CLOCK
    /\ sim.clock_hand = 1
    /\ sim.page_hits = 1
    /\ sim.frames[1].loaded_at < sim.frames[1].last_access
    /\ sim.frames[1].last_access = sim.access_counter - 1

\* C27: an access that faults adds one to the fault count; with an empty
\* frame the lowest-index empty frame is the destination and every other
\* frame is left as it was, otherwise exactly one frame changes its page; the
\* destination then holds the page with both stamps equal to the access
\* counter's value at the call and its reference bit set.
C27_AccessFault ==
    [][(PagingCall({"access"}) /\ paging_op'.ret = 0)
         => \E d \in DOMAIN sim.frames :
              /\ paging_op'.frame = d
              /\ \A i \in DOMAIN sim.frames : sim.frames[i].vpn # paging_op'.vpn
              /\ sim'.page_faults = sim.page_faults + 1
              /\ sim'.page_hits = sim.page_hits
              /\ DOMAIN sim'.frames = DOMAIN sim.frames
              /\ sim'.frames[d] = [vpn |-> paging_op'.vpn,
                                   loaded_at |-> sim.access_counter,
                                   last_access |-> sim.access_counter,
                                   reference_bit |-> 1]
              /\ \A j \in DOMAIN sim.frames \ {d} :
                    /\ sim'.frames[j].vpn = sim.frames[j].vpn
                    /\ sim'.frames[j].loaded_at = sim.frames[j].loaded_at
                    /\ sim'.frames[j].last_access = sim.frames[j].last_access
              /\ IF EmptyFrames(sim) # {}
                 THEN /\ d \in EmptyFrames(sim)
                      /\ \A e \in EmptyFrames(sim) : d <= e
                      /\ \A j \in DOMAIN sim.frames \ {d} : sim'.frames[j] = sim.frames[j]
                      /\ ~paging_op'.evict
                 ELSE /\ paging_op'.evict
                      /\ paging_op'.evicted = sim.frames[d].vpn
                      /\ sim.frames[d].vpn >= 0]_vars

\* A fault that filled the second frame while the first stayed resident, and
\* a later fault that replaced a resident page.
C27_Witness ==
    /\ sim # NULL
    /\ sim.num_frames = 2
    /\ paging_op.name = "access"
    /\ paging_op.ret = 0
    /\ paging_op.evict
    /\ paging_op.evicted >= 0
    /\ paging_op.vpn >= 0
    /\ sim.page_faults = 3
    /\ sim.page_hits = 1
    /\ sim.frames[paging_op.frame].loaded_at = 3

\* C28: every access advances the access counter by exactly one, whether it
\* hits, faults into an empty frame or faults with an eviction, under every
\* policy.
C28_AccessCounterTicks ==
    [][PagingCall({"access"}) => sim'.access_counter = sim.access_counter + 1]_vars

\* A run with a hit, two faults into empty frames and a fault with an
\* eviction, in which the counter has reached four.
C28_Witness ==
    /\ sim # NULL
    /\ sim.num_frames = 2
    /\ sim.policy = PAGING_POLICY_RANDOM
    /\ paging_hist.calls = 4
    /\ sim.page_hits = 1
    /\ sim.page_faults = 3
    /\ paging_op.name = "access"
    /\ paging_op.evict
    /\ sim.access_counter = 4


\* The distance of frame i from the hand, going round.
FromHand(sm, i) == (i - sm.clock_hand + sm.num_frames) % sm.num_frames

\* C29: an eviction under CLOCK takes the first frame, going round from the
\* hand, whose reference bit is unset when it is inspected: the nearest frame
\* with an unset bit, or the frame under the hand after a full round that
\* cleared every bit.  The frames inspected before it have their bits cleared,
\* the hand is left one past the victim, and the frames not inspected keep
\* their bits.
C29_ClockVictim ==
    [][(/\ PagingCall({"access"})
        /\ sim.policy = PAGING_POLICY_CLOCK
        /\ paging_op'.evict)
         => LET v == paging_op'.frame
                unset == {i \in DOMAIN sim.frames : sim.frames[i].reference_bit = 0}
            IN /\ v \in DOMAIN sim.frames
               /\ sim'.frames[v].vpn = paging_op'.vpn
               /\ sim'.clock_hand = (v + 1) % sim.num_frames
               /\ IF unset = {}
                  THEN /\ v = sim.clock_hand
                       /\ paging_op'.inspected = sim.num_frames + 1
                       /\ \A i \in DOMAIN sim.frames \ {v} :
                             sim'.frames[i].reference_bit = 0
                  ELSE /\ v \in unset
                       /\ \A u \in unset : FromHand(sim, v) <= FromHand(sim, u)
                       /\ paging_op'.inspected = FromHand(sim, v) + 1
                       /\ \A i \in DOMAIN sim.frames \ {v} :
                             sim'.frames[i].reference_bit =
                                IF FromHand(sim, i) < FromHand(sim, v)
                                THEN 0 ELSE sim.frames[i].reference_bit]_vars

\* An eviction whose scan passed a frame with its bit set, cleared it and took
\* the next frame, leaving a frame beyond the victim with its bit still set.
C29_Witness ==
    /\ sim # NULL
    /\ sim.policy = PAGING_POLICY_CLOCK
    /\ sim.num_frames = 3
    /\ paging_op.name = "access"
    /\ paging_op.evict
    /\ paging_op.inspected = 2
    /\ paging_op.frame = 2
    /\ sim.clock_hand = 0
    /\ sim.frames[0].reference_bit = 1
    /\ sim.frames[1].reference_bit = 0


\* The pages held by the frames.
ResidentPages(sm) == {sm.frames[i].vpn : i \in DOMAIN sm.frames}

\* The first page of the sequence q that is one of the pages in S, or -1.
RECURSIVE FirstIn(_, _)
FirstIn(q, S) ==
    IF q = <<>> THEN -1
    ELSE IF Head(q) \in S THEN Head(q)
    ELSE FirstIn(Tail(q), S)

\* C30: under LRU a fault on a full table evicts the frame with the smallest
\* last-access stamp (the lowest index among equals), and the page in that
\* frame is the resident page whose most recent access, hit or load, is the
\* oldest of all resident pages, whatever accesses and flushes came before.
C30_LruVictim ==
    [][(/\ PagingCall({"access"})
        /\ sim.policy = PAGING_POLICY_LRU
        /\ EmptyFrames(sim) = {}
        /\ paging_op'.ret = 0)
         => LET v == paging_op'.frame IN
            /\ paging_op'.evict
            /\ v \in DOMAIN sim.frames
            /\ \A j \in DOMAIN sim.frames :
                  \/ sim.frames[v].last_access < sim.frames[j].last_access
                  \/ sim.frames[v].last_access = sim.frames[j].last_access /\ v <= j
            /\ paging_op'.evicted = sim.frames[v].vpn
            /\ paging_op'.evicted = FirstIn(paging_hist.recent, ResidentPages(sim))
            /\ paging_op'.evicted \notin ResidentPages(sim')
            /\ sim'.frames[v].vpn = paging_op'.vpn]_vars

\* Two frames and the accesses A, B, A, C (pages 0, 1, 0, 2): the fourth
\* access has evicted B from the second frame and A is still resident.
C30_Witness ==
    /\ sim # NULL
    /\ sim.policy = PAGING_POLICY_LRU
    /\ sim.num_frames = 2
    /\ paging_hist.calls = 4
    /\ paging_hist.recent = <<1, 0, 2>>
    /\ sim.page_hits = 1
    /\ sim.frames[0] = [vpn |-> 0, loaded_at |-> 0, last_access |-> 2, reference_bit |-> 1]
    /\ paging_op.name = "access"
    /\ paging_op.vpn = 2
    /\ paging_op.evict
    /\ paging_op.evicted = 1
    /\ paging_op.frame = 1


\* C31: under FIFO a hit leaves every frame's loaded-at stamp as it was, and a
\* fault on a full table evicts the frame with the smallest loaded-at stamp
\* (the lowest index among equals), whose page is the resident page loaded
\* earliest, however often or recently it was hit.
C31_FifoVictim ==
    [][(PagingCall({"access"}) /\ sim.policy = PAGING_POLICY_FIFO)
         => /\ paging_op'.ret = 1
                  => \A i \in DOMAIN sim.frames :
                        sim'.frames[i].loaded_at = sim.frames[i].loaded_at
            /\ (paging_op'.ret = 0 /\ EmptyFrames(sim) = {})
                  => LET v == paging_op'.frame IN
                     /\ paging_op'.evict
                     /\ v \in DOMAIN sim.frames
                     /\ \A j \in DOMAIN sim.frames :
                           \/ sim.frames[v].loaded_at < sim.frames[j].loaded_at
                           \/ sim.frames[v].loaded_at = sim.frames[j].loaded_at /\ v <= j
                     /\ paging_op'.evicted = sim.frames[v].vpn
                     /\ paging_op'.evicted = FirstIn(paging_hist.loads, ResidentPages(sim))
                     /\ paging_op'.evicted \notin ResidentPages(sim')
                     /\ sim'.frames[v].vpn = paging_op'.vpn]_vars

\* Two frames and the accesses A, B, A, C (pages 0, 1, 0, 2): the third
\* access was a hit on A and the fourth has evicted A from the first frame.
C31_Witness ==
    /\ sim # NULL
    /\ sim.policy = PAGING_POLICY_FIFO
    /\ sim.num_frames = 2
    /\ paging_hist.calls = 4
    /\ paging_hist.loads = <<0, 1, 2>>
    /\ sim.page_hits = 1
    /\ sim.frames[1] = [vpn |-> 1, loaded_at |-> 1, last_access |-> 1, reference_bit |-> 1]
    /\ paging_op.name = "access"
    /\ paging_op.vpn = 2
    /\ paging_op.evict
    /\ paging_op.evicted = 0
    /\ paging_op.frame = 0


(***************************************************************************)
(* Properties of construct_physical_address.                                *)
(***************************************************************************)
\* The 64-bit value is below 2^k.
Below(v, k) == \A i \in Bits : i >= k => v[i] = 0

\* C32: construct_physical_address(pfn, offset) is (pfn << 12) | (offset &
\* 0xFFF) in 64 bits for every offset: bits 12..63 of the result are bits
\* 0..51 of pfn, its low twelve bits are those of offset (offset & 0xFFF as a
\* number), and for a pfn below 2^52 the result shifted right by 12 is pfn.
C32_ConstructPhysical ==
    walk_op.name = "construct"
        => LET r == walk_op.ret
               pfn == walk_op.pfn
               offset == walk_op.offset
           IN /\ \A i \in Bits : i >= PAGE_SHIFT => r[i] = pfn[i - PAGE_SHIFT]
              /\ \A i \in Bits : i < PAGE_SHIFT => r[i] = U64FromInt(offset)[i]
              /\ BitsValue(r, PAGE_SHIFT - 1, 0) = offset % 4096
              /\ Below(pfn, 52) => Shr(r, PAGE_SHIFT) = pfn

\* The largest frame number below 2^52 combined with the offset -1, whose
\* bits beyond the twelfth are all set: the result has every bit set.
C32_Witness ==
    /\ walk_op.name = "construct"
    /\ walk_op.pfn = U64(15, 16777215, 16777215)
    /\ walk_op.offset = -1
    /\ walk_op.ret = U64(65535, 16777215, 16777215)
    /\ Shr(walk_op.ret, PAGE_SHIFT) = walk_op.pfn


(***************************************************************************)
(* Invariants of the TLB and of the frame table.                            *)
(***************************************************************************)
\* C33: in every state of a TLB no two valid entries hold the same virtual
\* page number, whatever lookups, inserts, invalidations, accesses, flushes
\* and statistics resets were made, under every policy.
C33_NoDuplicateVpn ==
    tlb # NULL
        => \A i, j \in DOMAIN tlb.entries :
              (/\ i # j
               /\ tlb.entries[i].valid = 1
               /\ tlb.entries[j].valid = 1)
                 => tlb.entries[i].vpn # tlb.entries[j].vpn

\* Key 1 inserted again while it is resident in the second slot and the first
\* slot, invalidated, is free: the key is still held once.
C33_Witness ==
    /\ tlb # NULL
    /\ tlb.size = 2
    /\ tlb_op.name = "insert"
    /\ tlb_op.vpn = 1
    /\ tlb.entries[0].valid = 0
    /\ tlb.entries[0].vpn = 0
    /\ tlb.entries[1].valid = 1
    /\ tlb.entries[1].vpn = 1
    /\ tlb.entries[1].last_access = 2
    /\ tlb.access_counter = 3


\* The recency stamp of the valid entry of t that holds key k.
StampOf(t, k) ==
    t.entries[CHOOSE i \in DOMAIN t.entries :
                 t.entries[i].valid = 1 /\ t.entries[i].vpn = k].last_access

\* C34: in an LRU TLB a valid entry touched (inserted or hit) later carries a
\* strictly larger stamp than a valid entry touched earlier, also when
\* tlb_reset_stats was called while entries were resident.
C34_RecencySurvivesReset ==
    (tlb # NULL /\ tlb.replacement_policy = TLB_POLICY_LRU)
        => \A a, b \in 1..Len(tlb_hist.touched) :
              a < b => StampOf(tlb, tlb_hist.touched[a]) < StampOf(tlb, tlb_hist.touched[b])


\* C35: the first access to a page number after paging_init or paging_flush,
\* the number -1 included, is a fault: an access reports a hit only for a
\* page that an earlier access since then has brought in.
C35_FirstAccessFaults ==
    [][(PagingCall({"access"}) /\ paging_op'.vpn \notin paging_hist.pages)
         => paging_op'.ret = 0]_vars


\* C36: after paging_flush the frame table gives, for every access made
\* since, the outcome the freshly initialised table of the same frame count
\* and policy gives for the same accesses: the same hit or fault, the same
\* frame and the same evicted page, under LRU, FIFO and CLOCK.
C36_FlushLikeFreshInit ==
    (paging_op.name = "access" /\ paging_hist.flushed)
        => /\ paging_op.ret = paging_op.fresh_ret
           /\ paging_op.frame = paging_op.fresh_frame
           /\ paging_op.evict = paging_op.fresh_evict
           /\ paging_op.evicted = paging_op.fresh_evicted


\* C37: in every state of a frame table page_hits + page_faults equals
\* access_counter, whatever paging_init, paging_access and paging_flush calls
\* were made.
C37_HitsPlusFaults ==
    sim # NULL => sim.page_hits + sim.page_faults = sim.access_counter

\* A table that was flushed after one access and has since had two faults and
\* a hit.
C37_Witness ==
    /\ sim # NULL
    /\ paging_op.name = "access"
    /\ paging_hist.calls = 5
    /\ sim.page_hits = 1
    /\ sim.page_faults = 2
    /\ sim.access_counter = 3


\* The frames that hold a page.
OccupiedFrames(sm) == {i \in DOMAIN sm.frames : sm.frames[i].vpn >= 0}

\* C38: in every state of a frame table no non-negative page number is held
\* by two frames, and the frames that hold a page are frames of the table, at
\* most num_frames of them.
C38_NoDuplicatePage ==
    sim # NULL
        => /\ \A i, j \in OccupiedFrames(sim) :
                 i # j => sim.frames[i].vpn # sim.frames[j].vpn
           /\ OccupiedFrames(sim) \subseteq 0..(sim.num_frames - 1)
           /\ Cardinality(OccupiedFrames(sim)) <= sim.num_frames

\* A full two-frame table under RANDOM, reached by accesses to pairwise
\* distinct non-negative pages, the last of which replaced the page in the
\* second frame.
C38_Witness ==
    /\ sim # NULL
    /\ sim.policy = PAGING_POLICY_RANDOM
    /\ sim.num_frames = 2
    /\ paging_hist.distinct
    /\ paging_hist.calls = 3
    /\ paging_op.name = "access"
    /\ paging_op.evict
    /\ paging_op.frame = 1
    /\ OccupiedFrames(sim) = {0, 1}


(***************************************************************************)
(* Properties of the 'paging access' command.                               *)
(***************************************************************************)
\* C39: under every policy the frame named in the [PAGE FAULT] message is the
\* frame paging_access overwrites, and the evicted page it names is the page
\* that was in that frame before the call.
C39_PrintedFault ==
    (paging_op.name = "access" /\ paging_op.ret = 0)
        => /\ paging_op.printed.frame = paging_op.frame
           /\ paging_op.evict => paging_op.printed.evicted_vpn = paging_op.evicted

\* C40: an access that hits a frame loaded for an address hits the page of
\* that address: the address accessed and the address the frame was loaded
\* for have the same vaddr >> 12.
C40_HitOnSamePage ==
    (/\ paging_op.name = "access"
     /\ paging_op.ret = 1
     /\ paging_op.frame \in paging_hist.loaded)
        => paging_hist.owner[paging_op.frame] = get_vpn(paging_op.vaddr)

====
